---- MODULE Spec2Model ----
(***************************************************************************)
(* Model of the `register` management command of resolwe                   *)
(* (src/resolwe/flow/management/commands/register.py): normalisation of    *)
(* the declarative process / descriptor definitions, their validation and  *)
(* the version-aware upsert into the Process and DescriptorSchema tables.  *)
(*                                                                         *)
(* A Python str is a sequence of one-character strings, a Python dict is a *)
(* function whose domain is its set of keys, a Python list is a sequence.  *)
(***************************************************************************)
EXTENDS Integers, Sequences, FiniteSets, TLC

VARIABLES
    processes,     \* rows of the Process table
    descriptors,   \* rows of the DescriptorSchema table
    perms,         \* object permission grants (the ACL subsystem's rows)
    nextId,        \* next primary key of each table
    last,          \* what the last register_* call did
    vin,           \* SpecVersion: the pair of version strings compared
    vout,          \* SpecVersion: the verdict of the comparison
    nin,           \* SpecNorm: the definition handed to the normaliser
    nout,          \* SpecNorm: what the normaliser made of it
    cmd,           \* SpecCommand: the last run of the register command
    ent,           \* SpecEntity: entities, collections, data and the last request
    web            \* SpecCreate: the objects of the create views and the last request

vars == <<processes, descriptors, perms, nextId, last, vin, vout, nin, nout, cmd, ent, web>>

(***************************************************************************)
(* Bounds of the model.                                                    *)
(***************************************************************************)
MaxRecords == 2    \* rows in the two tables together
MaxBatch == 2      \* definitions handed to one register_* call

\* Python's None and a value that is not None
None == <<>>

Some(v) == <<v>>

(***************************************************************************)
(* Python dict and str primitives.                                         *)
(***************************************************************************)
Has(d, k) == k \in DOMAIN d

Put(d, k, v) == [x \in (DOMAIN d) \cup {k} |-> IF x = k THEN v ELSE d[x]]

Pop(d, k) == [x \in (DOMAIN d) \ {k} |-> d[x]]

EmptyDict == [x \in {} |-> None]

\* str.endswith(':')
EndsWithColon(s) == Len(s) > 0 /\ s[Len(s)] = ":"

\* s += ':'
AppendColon(s) == Append(s, ":")

\* str.replace(':', '-')
ReplaceColon(s) == [i \in 1..Len(s) |-> IF s[i] = ":" THEN "-" ELSE s[i]]

WordChars ==
    {"a", "b", "n", "m", "x", "d", "e", "l", "y", "A", "B", "L", "M", "Y",
     "f", "r", "s", "t", "u", "T", "h", "i", "o", "v", "w", "V", "0", "1", "2", "9", "_"}
SpaceChars == {" "}
Lower(c) ==
    CASE c = "A" -> "a" [] c = "B" -> "b" [] c = "L" -> "l" [] c = "M" -> "m"
      [] c = "Y" -> "y" [] c = "T" -> "t" [] c = "V" -> "v" [] OTHER -> c

\* re.sub(r'[^\w\s-]', '', value)
RECURSIVE KeepSlugChars(_)
KeepSlugChars(s) ==
    IF s = <<>> THEN <<>>
    ELSE IF Head(s) \in WordChars \cup SpaceChars \cup {"-"}
         THEN <<Head(s)>> \o KeepSlugChars(Tail(s))
         ELSE KeepSlugChars(Tail(s))

\* str.strip()
RECURSIVE LStrip(_)
LStrip(s) == IF s # <<>> /\ Head(s) \in SpaceChars THEN LStrip(Tail(s)) ELSE s

RECURSIVE RStrip(_)
RStrip(s) ==
    IF s # <<>> /\ s[Len(s)] \in SpaceChars
    THEN RStrip(SubSeq(s, 1, Len(s) - 1))
    ELSE s

\* re.sub(r'[-\s]+', '-', value)
RECURSIVE CollapseHyphens(_)
CollapseHyphens(s) ==
    IF s = <<>> THEN <<>>
    ELSE IF Head(s) \in SpaceChars \cup {"-"}
         THEN IF Tail(s) # <<>> /\ Head(Tail(s)) \in SpaceChars \cup {"-"}
              THEN CollapseHyphens(Tail(s))
              ELSE <<"-">> \o CollapseHyphens(Tail(s))
         ELSE <<Head(s)>> \o CollapseHyphens(Tail(s))

\* django.utils.text.slugify
slugify(value) ==
    LET kept == RStrip(LStrip(KeepSlugChars(value)))
        lowered == [i \in 1..Len(kept) |-> Lower(kept[i])]
    IN CollapseHyphens(lowered)

(***************************************************************************)
(* Versions.  A version string is split on '.', each part is read as a     *)
(* decimal number, missing parts are 0, and the parts are packed into one  *)
(* integer, the last part in the lowest bits.                              *)
(***************************************************************************)
VERSION_NUMBER_BITS == <<8, 10, 14>>

DigitVal(c) ==
    CASE c = "0" -> 0 [] c = "1" -> 1 [] c = "2" -> 2 [] c = "3" -> 3
      [] c = "4" -> 4 [] c = "5" -> 5 [] c = "6" -> 6 [] c = "7" -> 7
      [] c = "8" -> 8 [] c = "9" -> 9

\* str.split('.')
RECURSIVE SplitDots(_, _)
SplitDots(s, cur) ==
    IF s = <<>> THEN <<cur>>
    ELSE IF Head(s) = "." THEN <<cur>> \o SplitDots(Tail(s), <<>>)
         ELSE SplitDots(Tail(s), Append(cur, Head(s)))

\* int(number_string)
RECURSIVE ParseInt(_, _)
ParseInt(s, acc) ==
    IF s = <<>> THEN acc ELSE ParseInt(Tail(s), 10 * acc + DigitVal(Head(s)))

\* 1 << n
Pow2(n) == 2 ^ n

\* the numbers of a version string, padded with zeros to three parts
VersionNumbers(string) ==
    LET parts == SplitDots(string, <<>>)
        nums == [i \in 1..Len(parts) |-> ParseInt(parts[i], 0)]
    IN [i \in 1..Len(VERSION_NUMBER_BITS) |-> IF i <= Len(nums) THEN nums[i] ELSE 0]

\* number += num << total_bits, from the last part to the first
RECURSIVE PackNumbers(_, _, _, _)
PackNumbers(numbers, number_bits, i, total_bits) ==
    IF i = 0 THEN 0
    ELSE numbers[i] * Pow2(total_bits)
         + PackNumbers(numbers, number_bits, i - 1, total_bits + number_bits[i])

\* the slip of adding the parts without shifting them
ConvertWithoutShift(string, number_bits) ==
    LET numbers == VersionNumbers(string)
    IN numbers[1] + numbers[2] + numbers[3]

convert_version_string_to_int(string, number_bits) ==
    LET numbers == VersionNumbers(string)
    IN PackNumbers(numbers, number_bits, Len(number_bits), 0)

\* The version strings of the model, and their packed integers (computed
\* once: the conversion does not depend on the state).
V0_0_0 == <<"0", ".", "0", ".", "0">>
V1_9 == <<"1", ".", "9">>
V1_9_0 == <<"1", ".", "9", ".", "0">>
V1_10 == <<"1", ".", "1", "0">>

VersionStrings == {V0_0_0, V1_9, V1_9_0, V1_10}

PackedVersion ==
    [string \in VersionStrings |->
        convert_version_string_to_int(string, VERSION_NUMBER_BITS)]

\* the integer a version field stores for a version string
ToInt(version) == PackedVersion[version]

(***************************************************************************)
(* Python exceptions: an operation either returns a value or raises.       *)
(***************************************************************************)
Ok(v) == [ok |-> TRUE, val |-> v]

Raise(e) == [ok |-> FALSE, exc |-> e]

Bind(r, F(_)) == IF r.ok THEN F(r.val) ELSE r

(***************************************************************************)
(* Field schemas.  A schema is a list of fields; a field with a `group`    *)
(* key holds a nested schema.  A leaf is addressed by its path of indices. *)
(***************************************************************************)
RECURSIVE GetAt(_, _)
GetAt(schema, path) ==
    IF Len(path) = 1 THEN schema[path[1]]
    ELSE GetAt(schema[path[1]]["group"], Tail(path))

RECURSIVE SetAt(_, _, _)
SetAt(schema, path, field) ==
    IF Len(path) = 1 THEN [schema EXCEPT ![path[1]] = field]
    ELSE [schema EXCEPT ![path[1]] =
              Put(schema[path[1]], "group",
                  SetAt(schema[path[1]]["group"], Tail(path), field))]

\* resolwe.flow.utils.iterate_schema: the leaves of a schema, in order; it
\* reads field_schema['name'] of every field it meets.
RECURSIVE iterate_schema(_, _, _)
iterate_schema(schema, i, prefix) ==
    IF i > Len(schema) THEN Ok(<<>>)
    ELSE IF ~Has(schema[i], "name") THEN Raise("KeyError")
    ELSE LET here == IF Has(schema[i], "group")
                     THEN iterate_schema(schema[i]["group"], 1, Append(prefix, i))
                     ELSE Ok(<<Append(prefix, i)>>)
             rest == iterate_schema(schema, i + 1, prefix)
         IN IF ~here.ok THEN here
            ELSE IF ~rest.ok THEN rest
            ELSE Ok(here.val \o rest.val)

\* if not schema['type'][-1].endswith(':'): schema['type'] += ':'
\* applied to the leaves `paths` of `schema`, in order
RECURSIVE AppendColonAtLeaves(_, _)
AppendColonAtLeaves(schema, paths) ==
    IF paths = <<>> THEN Ok(schema)
    ELSE LET leaf == GetAt(schema, Head(paths))
         IN IF ~Has(leaf, "type") THEN Raise("KeyError")
            ELSE IF leaf["type"] = <<>> THEN Raise("IndexError")
            ELSE IF EndsWithColon(leaf["type"])
                 THEN AppendColonAtLeaves(schema, Tail(paths))
                 ELSE AppendColonAtLeaves(
                          SetAt(schema, Head(paths),
                                Put(leaf, "type", AppendColon(leaf["type"]))),
                          Tail(paths))

\* for schema, _, _ in iterate_schema({}, d[field] if field in d else {}): ...
\* for every field name of `fields`, in order
RECURSIVE NormalizeFieldTypes(_, _)
NormalizeFieldTypes(d, fields) ==
    IF fields = <<>> THEN Ok(d)
    ELSE LET field == Head(fields)
         IN IF ~Has(d, field) THEN NormalizeFieldTypes(d, Tail(fields))
            ELSE LET leaves == iterate_schema(d[field], 1, <<>>)
                     done == IF leaves.ok
                             THEN AppendColonAtLeaves(d[field], leaves.val)
                             ELSE leaves
                 IN IF ~done.ok THEN done
                    ELSE NormalizeFieldTypes(Put(d, field, done.val), Tail(fields))

(***************************************************************************)
(* register_processes, lines 102-126: the normalisation of one process     *)
(* definition.                                                             *)
(***************************************************************************)
ProcessTypeFields == <<"input", "output", "var", "static">>

\* if p['type'][-1] != ':': p['type'] += ':'
NormalizeType(p) ==
    IF ~Has(p, "type") THEN Raise("KeyError")
    ELSE IF p["type"] = <<>> THEN Raise("IndexError")
    ELSE IF p["type"][Len(p["type"])] # ":"
         THEN Ok(Put(p, "type", AppendColon(p["type"])))
         ELSE Ok(p)

\* if 'category' in p and not p['category'].endswith(':'): p['category'] += ':'
NormalizeCategory(p) ==
    IF Has(p, "category") /\ ~EndsWithColon(p["category"])
    THEN Ok(Put(p, "category", AppendColon(p["category"])))
    ELSE Ok(p)

\* the last leaf named 'name' that has a default gives p['data_name']
RECURSIVE DataNameFromLeaves(_, _, _)
DataNameFromLeaves(p, schema, paths) ==
    IF paths = <<>> THEN p
    ELSE LET leaf == GetAt(schema, Head(paths))
         IN IF leaf["name"] = <<"n", "a", "m", "e">> /\ Has(leaf, "default")
            THEN DataNameFromLeaves(Put(p, "data_name", leaf["default"]), schema, Tail(paths))
            ELSE DataNameFromLeaves(p, schema, Tail(paths))

\* the slip of never reading `static`
ExtractDataNameNever(p) == Ok(p)

\* get `data_name` from `static`
ExtractDataName(p) ==
    IF ~Has(p, "static") THEN Ok(p)
    ELSE LET leaves == iterate_schema(p["static"], 1, <<>>)
         IN IF ~leaves.ok THEN leaves
            ELSE Ok(DataNameFromLeaves(p, p["static"], leaves.val))

\* the slip of keeping the old keys
KeepOldKeys(d) == Ok(d)

\* support backward compatibility: slug from the old name, name from the label
RenameOldKeys(d) ==
    IF Has(d, "slug") THEN Ok(d)
    ELSE IF ~Has(d, "name") THEN Raise("KeyError")
    ELSE IF ~Has(d, "label") THEN Raise("KeyError")
    ELSE Ok(Pop(Put(Put(d, "slug", slugify(ReplaceColon(d["name"]))),
                    "name", d["label"]),
                "label"))

ProcessBackwardCompatibility(p) ==
    IF Has(p, "slug") THEN Ok(p)
    ELSE LET r == RenameOldKeys(p)
         IN IF ~r.ok THEN r ELSE Ok(Pop(Pop(r.val, "var"), "static"))

ProcessFieldTypes(p) == NormalizeFieldTypes(p, ProcessTypeFields)

NormalizeProcess(p) ==
    Bind(Bind(Bind(Bind(NormalizeType(p), NormalizeCategory), ExtractDataName),
              ProcessBackwardCompatibility),
         ProcessFieldTypes)

(***************************************************************************)
(* register_descriptors, lines 220-237: the normalisation of one           *)
(* descriptor definition.                                                  *)
(***************************************************************************)
DescriptorTypeFields == <<"var", "schema">>

DescriptorFieldTypes(d) == NormalizeFieldTypes(d, DescriptorTypeFields)

\* schema defaults to [], then static and var are appended to it and dropped
MergeIntoSchema(d) ==
    LET d1 == IF Has(d, "schema") THEN d ELSE Put(d, "schema", <<>>)
        d2 == IF Has(d1, "static")
              THEN Pop(Put(d1, "schema", d1["schema"] \o d1["static"]), "static")
              ELSE d1
        d3 == IF Has(d2, "var")
              THEN Pop(Put(d2, "schema", d2["schema"] \o d2["var"]), "var")
              ELSE d2
    IN Ok(d3)

NormalizeDescriptor(d) ==
    Bind(Bind(DescriptorFieldTypes(d), RenameOldKeys), MergeIntoSchema)

(***************************************************************************)
(* Validation against the fixed structural schemas (Command.valid): the    *)
(* keys a definition must have and the keys it may have.                   *)
(***************************************************************************)
PROCESSOR_SCHEMA ==
    [required |-> {"slug", "name", "version", "type"},
     allowed |-> {"slug", "name", "version", "type", "category", "data_name",
                  "description", "persistence", "scheduling_class", "input",
                  "output", "static", "var", "run"}]

DESCRIPTOR_SCHEMA ==
    [required |-> {"slug", "name"},
     allowed |-> {"slug", "name", "version", "description", "schema"}]

\* jsonschema.validate raising ValidationError is caught: valid returns False
valid(instance, schema) ==
    /\ schema.required \subseteq DOMAIN instance
    /\ DOMAIN instance \subseteq schema.allowed

(***************************************************************************)
(* Execution engines (manager.get_execution_engine): the languages that    *)
(* have one, and the output fields an engine adds.                         *)
(***************************************************************************)
SupportedLanguages == {"bash", "workflow"}

get_output_schema(language) ==
    IF language = "workflow"
    THEN << [name |-> <<"s">>, type |-> <<"l", ":">>] >>
    ELSE <<>>

persistence_mapping == [RAW |-> "RAW", CACHED |-> "CAC", TEMP |-> "TMP"]

scheduling_class_mapping == [interactive |-> "IN", batch |-> "BA"]

(***************************************************************************)
(* The relational store and the ACL subsystem.                             *)
(***************************************************************************)
Admin == "admin"

\* the permissions a model defines (assign_contributor_permissions grants
\* them all to the contributor)
AllPermissions(ctype) ==
    IF ctype = "process" THEN {"view", "share", "owner"}
    ELSE {"view", "edit", "share", "owner"}

\* objects.filter(slug=slug)
FilterSlug(rows, slug) == {r \in rows : r["slug"] = slug}

\* objects.filter(slug=slug, version=version): the version field compares
\* the packed integer of the string
FilterSlugVersion(rows, slug, version) ==
    LET int_version == ToInt(version)
    IN {r \in rows : r["slug"] = slug /\ r["version"] = int_version}

\* aggregate(Max('version'))['version__max']
MaxVersion(rows) ==
    IF rows = {} THEN None
    ELSE Some(CHOOSE v \in {r["version"] : r \in rows} : \A r \in rows : r["version"] <= v)

\* queryset.latest(): the row with the greatest version
Latest(rows) == CHOOSE r \in rows : \A q \in rows : q["version"] <= r["version"]

GrantsOf(grants, ctype, pk) == {g \in grants : g.ctype = ctype /\ g.pk = pk}

\* assign_perm(perm, who, obj)
assign_perm(grants, perm, who, ctype, pk) ==
    grants \cup {[ctype |-> ctype, pk |-> pk, who |-> who, perm |-> perm]}

\* assign_contributor_permissions(obj)
assign_contributor_permissions(grants, ctype, pk, contributor) ==
    grants \cup {[ctype |-> ctype, pk |-> pk, who |-> contributor, perm |-> perm] :
                    perm \in AllPermissions(ctype)}

\* copy_permissions(src_obj, dest_obj): every user and group grant on the
\* source is assigned on the destination
copy_permissions(grants, ctype, src_pk, dest_pk) ==
    grants \cup {[ctype |-> ctype, pk |-> dest_pk, who |-> g.who, perm |-> g.perm] :
                    g \in GrantsOf(grants, ctype, src_pk)}

\* the row objects.create(contributor=user, **fields) stores
NewRow(fields, pk, user) ==
    Put(Put(Put(fields, "version",
                ToInt(IF Has(fields, "version") THEN fields["version"] ELSE V0_0_0)),
            "id", pk),
        "contributor", user)

\* the slip of an update that writes nothing
UpdatedRowUnchanged(row, fields) == row

\* the row queryset.update(**fields) leaves: the given fields overwrite
\* the row's, the others stay
UpdatedRow(row, fields) ==
    [k \in (DOMAIN row) \cup (DOMAIN fields) |->
        IF k = "version" /\ Has(fields, k)
        THEN ToInt(fields[k])
        ELSE IF Has(fields, k) THEN fields[k] ELSE row[k]]

(***************************************************************************)
(* The version-aware upsert shared by both loops (lines 173-202 and        *)
(* 242-272).  db = [rows, grants, nextId] of one table.                    *)
(***************************************************************************)
\* the slip of leaving the newer-version test out
NewerInstalledNever(latest_version, int_version) == FALSE

\* if latest_version is not None and latest_version > int_version: continue
NewerInstalled(latest_version, int_version) ==
    latest_version # None /\ latest_version[1] > int_version

\* the slip of never finding a previous version
PreviousNone(rows, slug) == None

\* previous = qs.latest() if qs.exists() else None
Previous(rows, slug) ==
    IF FilterSlug(rows, slug) # {} THEN Some(Latest(FilterSlug(rows, slug))) ELSE None

\* the slip of leaving the exact-version test out
ExistsNever(rows, slug, version) == FALSE

\* objects.filter(slug=slug, version=version).exists()
Exists(rows, slug, version) == FilterSlugVersion(rows, slug, version) # {}

\* the slip of updating whether forced or not
SkipSameNever(force) == FALSE

\* if not force: continue
SkipSame(force) == ~force

Upsert(db, ctype, fields, slug, version, user, force) ==
    LET int_version == ToInt(version)
        latest_version == MaxVersion(FilterSlug(db.rows, slug))
        previous == Previous(db.rows, slug)
        query == FilterSlugVersion(db.rows, slug, version)
    IN IF NewerInstalled(latest_version, int_version)
       THEN [db |-> db, outcome |-> "newer"]
       ELSE IF Exists(db.rows, slug, version)
       THEN IF SkipSame(force)
            THEN [db |-> db, outcome |-> "same"]
            ELSE [db |-> [db EXCEPT !.rows = (db.rows \ query)
                                        \cup {UpdatedRow(r, fields) : r \in query}],
                  outcome |-> "updated"]
       ELSE LET pk == db.nextId
                created == assign_contributor_permissions(db.grants, ctype, pk, user)
            IN [db |-> [rows |-> db.rows \cup {NewRow(fields, pk, user)},
                        grants |-> IF previous # None
                                   THEN copy_permissions(created, ctype, previous[1]["id"], pk)
                                   ELSE created,
                        nextId |-> pk + 1],
                outcome |-> "inserted"]

(***************************************************************************)
(* The definitions the command is run on (what find_schemas read from the  *)
(* YAML files).                                                            *)
(***************************************************************************)
SlugA == <<"a">>
SlugB == <<"b">>
NameN == <<"n">>
NameM == <<"m">>
OldNameB == <<" ", "B", "!">>      \* slugifies to "b"
TypeNoColon == <<"d", ":", "x">>
TypeColon == <<"d", ":", "x", ":">>
FieldNoColon == [name |-> <<"f">>, type |-> <<"b">>]
FieldColon == [name |-> <<"g">>, type |-> <<"b", ":">>]
Run == [program |-> "x"]
RunBash == [language |-> "bash", program |-> "x"]
RunNope == [language |-> "nope", program |-> "x"]

ProcessSchemas ==
    { [slug |-> SlugA, name |-> NameN, version |-> V1_9, type |-> TypeNoColon, run |-> Run],
      [slug |-> SlugA, name |-> NameM, version |-> V1_9_0, type |-> TypeColon, run |-> RunBash],
      [slug |-> SlugA, name |-> NameM, version |-> V1_10, type |-> TypeColon, run |-> Run],
      [name |-> OldNameB, label |-> NameN, version |-> V1_10, type |-> TypeNoColon,
       run |-> Run],
      [slug |-> SlugA, version |-> V1_10, type |-> TypeColon, run |-> Run],
      [slug |-> SlugB, name |-> NameN, version |-> V1_10, run |-> Run],
      [slug |-> SlugB, name |-> NameM, version |-> V1_10, type |-> TypeColon,
       run |-> RunNope] }

DescriptorSchemas ==
    { [slug |-> SlugA, name |-> NameN, version |-> V1_9, schema |-> <<FieldNoColon>>],
      [slug |-> SlugA, name |-> NameM, version |-> V1_9_0, schema |-> <<>>,
       var |-> <<FieldNoColon>>],
      [slug |-> SlugA, name |-> NameM, version |-> V1_10, schema |-> <<FieldColon>>,
       static |-> <<FieldNoColon>>],
      [name |-> OldNameB, label |-> NameN, schema |-> <<FieldColon>>],
      [slug |-> SlugA, version |-> V1_10, schema |-> <<>>],
      [label |-> NameN, version |-> V1_10, schema |-> <<>>] }

(***************************************************************************)
(* register_processes, lines 102-171: what the loop body does with one     *)
(* definition before it looks at the store.                                *)
(***************************************************************************)
\* p['persistence'] = persistence_mapping[p['persistence']]
MapPersistence(p) ==
    IF ~Has(p, "persistence") THEN Ok(p)
    ELSE IF p["persistence"] \notin DOMAIN persistence_mapping THEN Raise("KeyError")
    ELSE Ok(Put(p, "persistence", persistence_mapping[p["persistence"]]))

\* p['scheduling_class'] = scheduling_class_mapping[p['scheduling_class']]
MapSchedulingClass(p) ==
    IF ~Has(p, "scheduling_class") THEN Ok(p)
    ELSE IF p["scheduling_class"] \notin DOMAIN scheduling_class_mapping THEN Raise("KeyError")
    ELSE Ok(Put(p, "scheduling_class", scheduling_class_mapping[p["scheduling_class"]]))

\* p['input_schema'] = p.pop('input'); p['output_schema'] = p.pop('output')
RenameSchemas(p) ==
    LET p1 == IF Has(p, "input") THEN Pop(Put(p, "input_schema", p["input"]), "input") ELSE p
    IN IF Has(p1, "output") THEN Pop(Put(p1, "output_schema", p1["output"]), "output") ELSE p1

\* p['run'].setdefault('language', 'bash')
WithDefaultLanguage(p) ==
    IF Has(p, "run") /\ ~Has(p["run"], "language")
    THEN Put(p, "run", Put(p["run"], "language", "bash"))
    ELSE p

\* p.setdefault('output_schema', []).extend(extra_output_schema)
WithEngineOutput(p) ==
    LET extra == get_output_schema(p["run"]["language"])
    IN IF extra = <<>> THEN p
       ELSE Put(p, "output_schema",
                (IF Has(p, "output_schema") THEN p["output_schema"] ELSE <<>>) \o extra)

\* lines 132-171 for a definition that passed validation
PrepareValidProcess(p0) ==
    LET mapped == Bind(MapPersistence(p0), MapSchedulingClass)
    IN IF ~mapped.ok THEN [outcome |-> "raised"]
       ELSE LET p == WithDefaultLanguage(RenameSchemas(mapped.val))
            IN IF Has(p, "run") /\ p["run"]["language"] \notin SupportedLanguages
               THEN [outcome |-> "engine"]
               ELSE [outcome |-> "ready",
                     fields |-> IF Has(p, "run") THEN WithEngineOutput(p) ELSE p,
                     slug |-> p["slug"],
                     version |-> p["version"]]

\* lines 102-171: "raised" when an exception leaves the loop, "invalid" and
\* "engine" when the definition is skipped, "ready" when it goes to the store
PrepareProcess(schema) ==
    LET n == NormalizeProcess(schema)
    IN IF ~n.ok THEN [outcome |-> "raised"]
       ELSE IF ~valid(n.val, PROCESSOR_SCHEMA) THEN [outcome |-> "invalid"]
       ELSE PrepareValidProcess(n.val)

\* lines 220-244 of register_descriptors
PrepareDescriptor(schema) ==
    LET n == NormalizeDescriptor(schema)
    IN IF ~n.ok THEN [outcome |-> "raised"]
       ELSE IF ~valid(n.val, DESCRIPTOR_SCHEMA) THEN [outcome |-> "invalid"]
       ELSE [outcome |-> "ready",
             fields |-> n.val,
             slug |-> n.val["slug"],
             version |-> IF Has(n.val, "version") THEN n.val["version"] ELSE V0_0_0]

\* The preparation does not depend on the store: it is computed once for
\* each definition of the model.
PreparedProcess == [schema \in ProcessSchemas |-> PrepareProcess(schema)]

PreparedDescriptor == [schema \in DescriptorSchemas |-> PrepareDescriptor(schema)]

\* one pass of the loop body of register_processes
RegisterProcess(db, schema, user, force) ==
    LET p == PreparedProcess[schema]
    IN IF p.outcome # "ready" THEN [db |-> db, outcome |-> p.outcome]
       ELSE Upsert(db, "process", p.fields, p.slug, p.version, user, force)

\* one pass of the loop body of register_descriptors
RegisterDescriptor(db, schema, user, force) ==
    LET d == PreparedDescriptor[schema]
    IN IF d.outcome # "ready" THEN [db |-> db, outcome |-> d.outcome]
       ELSE Upsert(db, "descriptor", d.fields, d.slug, d.version, user, force)

(***************************************************************************)
(* The batch loops.  An exception leaves the loop and the command; a       *)
(* `continue` goes on with the next definition.                            *)
(***************************************************************************)
\* the slip of ending the batch at an invalid definition
GoesOnOnlyAfterRegistration(outcome) == outcome \notin {"raised", "invalid"}

\* the slip of ending the batch at a definition without an engine
GoesOnUnlessNoEngine(outcome) == outcome \notin {"raised", "engine"}

GoesOn(outcome) == outcome # "raised"

\* for p in process_schemas: ...
RECURSIVE register_processes(_, _, _, _, _)
register_processes(db, process_schemas, user, force, outcomes) ==
    IF process_schemas = <<>> THEN [db |-> db, outcomes |-> outcomes]
    ELSE LET r == RegisterProcess(db, Head(process_schemas), user, force)
         IN IF GoesOn(r.outcome)
            THEN register_processes(r.db, Tail(process_schemas), user, force,
                                    Append(outcomes, r.outcome))
            ELSE [db |-> r.db, outcomes |-> Append(outcomes, r.outcome)]

\* for descriptor_schema in descriptor_schemas: ...
RECURSIVE register_descriptors(_, _, _, _, _)
register_descriptors(db, descriptor_schemas, user, force, outcomes) ==
    IF descriptor_schemas = <<>> THEN [db |-> db, outcomes |-> outcomes]
    ELSE LET r == RegisterDescriptor(db, Head(descriptor_schemas), user, force)
         IN IF GoesOn(r.outcome)
            THEN register_descriptors(r.db, Tail(descriptor_schemas), user, force,
                                      Append(outcomes, r.outcome))
            ELSE [db |-> r.db, outcomes |-> Append(outcomes, r.outcome)]

Batches(schemas) == UNION {[1..n -> schemas] : n \in 1..MaxBatch}

Grantees == {"user1"}

GrantablePermissions == {"view"}

(***************************************************************************)
(* The state machine of the command's two registration passes.             *)
(***************************************************************************)
ProcessDb == [rows |-> processes, grants |-> perms, nextId |-> nextId.process]

DescriptorDb == [rows |-> descriptors, grants |-> perms, nextId |-> nextId.descriptor]

NoCall == [op |-> "none", force |-> FALSE, n |-> 0, outcomes |-> <<>>]

InitStore ==
    /\ processes = {}
    /\ descriptors = {}
    /\ perms = {}
    /\ nextId = [process |-> 1, descriptor |-> 1]
    /\ last = NoCall

InitPure ==
    /\ vin = <<>>
    /\ vout = "none"
    /\ nin = <<>>
    /\ nout = <<>>

\* the parts of the state that belong to the other specifications
InitNoCommand == cmd = <<>>

InitNoEntity == ent = <<>>

InitNoWeb == web = <<>>

InitOthers == InitNoCommand /\ InitNoEntity /\ InitNoWeb

Init == InitStore /\ InitPure /\ InitOthers

RegisterProcesses ==
    \E batch \in Batches(ProcessSchemas), force \in BOOLEAN :
        \E res \in {register_processes(ProcessDb, batch, Admin, force, <<>>)} :
           /\ Cardinality(res.db.rows) + Cardinality(descriptors) <= MaxRecords
           /\ processes' = res.db.rows
           /\ perms' = res.db.grants
           /\ nextId' = [nextId EXCEPT !.process = res.db.nextId]
           /\ last' = [op |-> "process", force |-> force, n |-> Len(batch),
                       outcomes |-> res.outcomes]
           /\ UNCHANGED <<descriptors, vin, vout, nin, nout, cmd, ent, web>>

RegisterDescriptors ==
    \E batch \in Batches(DescriptorSchemas), force \in BOOLEAN :
        \E res \in {register_descriptors(DescriptorDb, batch, Admin, force, <<>>)} :
           /\ Cardinality(res.db.rows) + Cardinality(processes) <= MaxRecords
           /\ descriptors' = res.db.rows
           /\ perms' = res.db.grants
           /\ nextId' = [nextId EXCEPT !.descriptor = res.db.nextId]
           /\ last' = [op |-> "descriptor", force |-> force, n |-> Len(batch),
                       outcomes |-> res.outcomes]
           /\ UNCHANGED <<processes, vin, vout, nin, nout, cmd, ent, web>>

\* a grant made through the permissions API on a registered object
AssignPerm ==
    \E ctype \in {"process", "descriptor"}, who \in Grantees, perm \in GrantablePermissions :
        \E row \in (IF ctype = "process" THEN processes ELSE descriptors) :
            /\ perms' = assign_perm(perms, perm, who, ctype, row["id"])
            /\ perms' # perms
            /\ last' = [op |-> "assign_perm", force |-> FALSE, n |-> 0, outcomes |-> <<>>]
            /\ UNCHANGED <<processes, descriptors, nextId, vin, vout, nin, nout, cmd, ent, web>>

Next == RegisterProcesses \/ RegisterDescriptors \/ AssignPerm

Spec == Init /\ [][Next]_vars

(***************************************************************************)
(* The version comparison on its own (lines 173-178): is a newer version   *)
(* than `version` installed, when the only row of the slug holds           *)
(* `installed`?                                                            *)
(***************************************************************************)
VersionParts == {<<"0">>, <<"1">>, <<"9">>, <<"1", "0">>}

Dotted(a, b) == a \o <<".">> \o b

ComparedVersions ==
    VersionParts
    \cup {Dotted(a, b) : a \in VersionParts, b \in VersionParts}
    \cup {Dotted(Dotted(a, b), c) : a \in VersionParts, b \in VersionParts, c \in VersionParts}

InitVersion ==
    /\ InitStore
    /\ vin \in ComparedVersions \X ComparedVersions
    /\ vout = "none"
    /\ nin = <<>>
    /\ nout = <<>>
    /\ InitOthers

CompareVersions ==
    /\ vout = "none"
    /\ LET installed == [slug |-> SlugA,
                         version |-> convert_version_string_to_int(vin[1], VERSION_NUMBER_BITS)]
           int_version == convert_version_string_to_int(vin[2], VERSION_NUMBER_BITS)
           latest_version == MaxVersion(FilterSlug({installed}, SlugA))
       IN vout' = IF NewerInstalled(latest_version, int_version) THEN "newer" ELSE "not newer"
    /\ UNCHANGED <<processes, descriptors, perms, nextId, last, vin, nin, nout, cmd, ent, web>>

SpecVersion == InitVersion /\ [][CompareVersions]_vars

(***************************************************************************)
(* The normalisation on its own: one definition, normalised once and then  *)
(* once more.                                                              *)
(***************************************************************************)
NameField == [name |-> <<"n", "a", "m", "e">>, type |-> <<"b", ":">>, default |-> <<"x">>]
GroupField == [name |-> <<"g">>, group |-> <<FieldColon, FieldNoColon>>]

\* a dict with the keys of `keys` taken from `full`
Only(full, keys) == [k \in keys |-> full[k]]

FullProcess ==
    [slug |-> SlugA, name |-> NameN, label |-> NameM, version |-> V1_9,
     type |-> TypeNoColon, category |-> <<"c">>, static |-> <<NameField, FieldNoColon>>,
     input |-> <<GroupField>>, output |-> <<FieldNoColon, FieldColon>>, run |-> Run]

FullDescriptor ==
    [slug |-> SlugA, name |-> NameN, label |-> NameM, version |-> V1_9,
     schema |-> <<FieldColon, FieldNoColon>>, static |-> <<FieldNoColon>>,
     var |-> <<GroupField>>]

NameFieldVar == [name |-> <<"n", "a", "m", "e">>, type |-> <<"b", ":">>, default |-> <<"y">>]
NameNoDefault == [name |-> <<"n", "a", "m", "e">>, type |-> <<"b", ":">>]
NameInGroup == [name |-> <<"g">>, group |-> <<NameField>>]

OldNameColon == <<"A", ":", " ", "b">>      \* slugifies to "a-b"

ProcessWithVar ==
    [k \in DOMAIN FullProcess \cup {"var"} |->
        IF k = "var" THEN <<NameFieldVar, FieldNoColon>> ELSE FullProcess[k]]

NormalizedShapes ==
    {[kind |-> "process",
      schema |-> Only(ProcessWithVar, keys \cup {"name", "label", "type", "run"})] :
        keys \in SUBSET {"slug", "static", "var"}}
    \cup {[kind |-> "process",
           schema |-> [Only(FullProcess, {"name", "label", "type", "run"})
                          EXCEPT !["name"] = OldNameColon]],
          [kind |-> "descriptor",
           schema |-> [Only(FullDescriptor, {"name", "label", "schema"})
                          EXCEPT !["name"] = OldNameColon]]}
    \cup {[kind |-> "process", schema |-> [FullProcess EXCEPT !["static"] = static]] :
            static \in {<<NameNoDefault>>, <<NameField, NameFieldVar>>,
                        <<NameInGroup, NameNoDefault>>}}
    \cup
    {[kind |-> "process", schema |-> Only(FullProcess, keys \cup {"run"})] :
        keys \in SUBSET {"slug", "name", "label", "type", "category", "static", "input"}}
    \cup {[kind |-> "process",
           schema |-> [FullProcess EXCEPT !["type"] = t, !["input"] = <<f>>]] :
            t \in {<<>>, TypeColon}, f \in {[name |-> <<"f">>], [type |-> <<"b">>],
                                            [name |-> <<"f">>, type |-> <<>>]}}
    \cup {[kind |-> "descriptor", schema |-> Only(FullDescriptor, keys \cup {"schema"})] :
            keys \in SUBSET {"slug", "name", "label", "version", "static", "var"}}
    \cup {[kind |-> "descriptor", schema |-> Only(FullDescriptor, keys)] :
            keys \in {{"slug", "name"}, {"slug", "name", "var"}, {"name", "label", "var"}}}

Normalize(kind, schema) ==
    IF kind = "process" THEN NormalizeProcess(schema) ELSE NormalizeDescriptor(schema)

InitNorm ==
    /\ InitStore
    /\ vin = <<>>
    /\ vout = "none"
    /\ nin \in NormalizedShapes
    /\ nout = <<>>
    /\ InitOthers

NormalizeOnce ==
    /\ nout = <<>>
    /\ nout' = <<Normalize(nin.kind, nin.schema)>>
    /\ UNCHANGED <<processes, descriptors, perms, nextId, last, vin, vout, nin, cmd, ent, web>>

NormalizeAgain ==
    /\ Len(nout) = 1
    /\ nout[1].ok
    /\ nout' = Append(nout, Normalize(nin.kind, nout[1].val))
    /\ UNCHANGED <<processes, descriptors, perms, nextId, last, vin, vout, nin, cmd, ent, web>>

NextNorm == NormalizeOnce \/ NormalizeAgain

SpecNorm == InitNorm /\ [][NextNorm]_vars

(***************************************************************************)
(* Properties of the version-aware upsert, stated for both tables and for  *)
(* every definition of the model in every reachable store.                 *)
(***************************************************************************)
Tables == {"process", "descriptor"}

DbOf(ctype) == IF ctype = "process" THEN ProcessDb ELSE DescriptorDb

SchemasOf(ctype) == IF ctype = "process" THEN ProcessSchemas ELSE DescriptorSchemas

PreparedOf(ctype, schema) ==
    IF ctype = "process" THEN PreparedProcess[schema] ELSE PreparedDescriptor[schema]

RegisterOne(ctype, db, schema, force) ==
    IF ctype = "process" THEN RegisterProcess(db, schema, Admin, force)
    ELSE RegisterDescriptor(db, schema, Admin, force)

RegisterAll(ctype, db, batch, force) ==
    IF ctype = "process" THEN register_processes(db, batch, Admin, force, <<>>)
    ELSE register_descriptors(db, batch, Admin, force, <<>>)

\* the definitions that pass normalisation and validation, with the slug
\* and version they are registered under
NormalForm ==
    [ctype \in Tables |->
        [schema \in SchemasOf(ctype) |->
            LET n == Normalize(ctype, schema)
            IN IF n.ok /\ valid(n.val, IF ctype = "process" THEN PROCESSOR_SCHEMA
                                       ELSE DESCRIPTOR_SCHEMA)
               THEN [valid |-> TRUE, fields |-> n.val, slug |-> n.val["slug"],
                     version |-> IF Has(n.val, "version") THEN n.val["version"] ELSE V0_0_0]
               ELSE [valid |-> FALSE]]]

Valid(ctype, schema) == NormalForm[ctype][schema].valid

Ready(ctype, schema) == PreparedOf(ctype, schema).outcome = "ready"

SlugRows(rows, slug) == {r \in rows : r["slug"] = slug}

HasNewer(rows, slug, version) ==
    \E r \in SlugRows(rows, slug) : r["version"] > PackedVersion[version]

HasExact(rows, slug, version) ==
    \E r \in SlugRows(rows, slug) : r["version"] = PackedVersion[version]

HighestRow(rows, slug) ==
    CHOOSE r \in SlugRows(rows, slug) : \A q \in SlugRows(rows, slug) : q["version"] <= r["version"]

LatestNotLower(before, after, slug) ==
    \A r \in SlugRows(before, slug) :
        \E q \in SlugRows(after, slug) : q["version"] >= r["version"]

Slugs == {SlugA, SlugB}

WhoPerm(grants, ctype, pk) == {<<g.who, g.perm>> : g \in GrantsOf(grants, ctype, pk)}

Occurs(outcome) == \E i \in 1..Len(last.outcomes) : last.outcomes[i] = outcome

\* C1: a definition whose version is lower than the latest registered
\* version of its slug is rejected, with and without force: no row is
\* inserted or updated, no grant changes; and no registration lowers the
\* latest version of any slug.
C1_LowerVersionRejected ==
    \A ctype \in Tables : \A schema \in SchemasOf(ctype), force \in BOOLEAN :
        LET p == PreparedOf(ctype, schema)
            res == RegisterOne(ctype, DbOf(ctype), schema, force)
        IN /\ (Ready(ctype, schema) /\ HasNewer(DbOf(ctype).rows, p.slug, p.version))
                => res.db = DbOf(ctype)
           /\ \A slug \in Slugs : LatestNotLower(DbOf(ctype).rows, res.db.rows, slug)

\* a forced registration of a lower version was rejected
C1_Witness ==
    /\ last.force
    /\ Occurs("newer")

\* C2: no table holds two records with the same slug and the same version.
C2_OneRecordPerSlugVersion ==
    \A rows \in {processes, descriptors} :
        \A r1 \in rows, r2 \in rows :
            (r1["slug"] = r2["slug"] /\ r1["version"] = r2["version"]) => r1 = r2

\* a registered (slug, version) was registered again, once skipped and once
\* forced
C2_Witness ==
    \/ last.outcomes = <<"inserted", "updated">>
    \/ last.outcomes = <<"updated", "same">>

\* C3: without force, registering a definition a second time changes
\* nothing (rows, their fields, grants), and so does registering any
\* definition whose (slug, version) is already registered.
C3_SecondRegistrationIsNoOp ==
    \A ctype \in Tables : \A schema \in SchemasOf(ctype) :
        LET p == PreparedOf(ctype, schema)
            first == RegisterOne(ctype, DbOf(ctype), schema, FALSE)
            second == RegisterOne(ctype, first.db, schema, FALSE)
        IN /\ second.db = first.db
           /\ second.outcome \notin {"inserted", "updated"}
           /\ (Ready(ctype, schema) /\ HasExact(DbOf(ctype).rows, p.slug, p.version))
                => first.db = DbOf(ctype)

\* a batch without force registered a definition and met it again
C3_Witness ==
    /\ ~last.force
    /\ last.outcomes = <<"inserted", "same">>

\* what a registration of `schema` as a new highest version must leave:
\* exactly one new row holding the definition, the older rows as they were,
\* the contributor's grants on it plus those of the previous latest row of
\* the slug (none when the slug had no row), all other grants as they were
InsertsWithCopiedGrants(ctype, schema, n, force) ==
    LET db == DbOf(ctype)
        res == RegisterOne(ctype, db, schema, force)
        new == res.db.rows \ db.rows
        inherited == IF SlugRows(db.rows, n.slug) = {} THEN {}
                     ELSE WhoPerm(db.grants, ctype, HighestRow(db.rows, n.slug)["id"])
    IN /\ db.rows \subseteq res.db.rows
       /\ Cardinality(new) = 1
       /\ \A r \in new :
            /\ r["slug"] = n.slug
            /\ r["version"] = PackedVersion[n.version]
            /\ r["contributor"] = Admin
            /\ r["name"] = n.fields["name"]
            /\ \A q \in db.rows : q["id"] # r["id"]
            /\ WhoPerm(res.db.grants, ctype, r["id"])
                 = {<<Admin, perm>> : perm \in AllPermissions(ctype)} \cup inherited
            /\ {g \in res.db.grants : g.ctype # ctype \/ g.pk # r["id"]} = db.grants

HigherThanRegistered(ctype, n) ==
    /\ ~HasNewer(DbOf(ctype).rows, n.slug, n.version)
    /\ ~HasExact(DbOf(ctype).rows, n.slug, n.version)

UpdatesInPlace(ctype, schema, n) ==
    LET db == DbOf(ctype)
        res == RegisterOne(ctype, db, schema, TRUE)
        old == CHOOSE r \in SlugRows(db.rows, n.slug) : r["version"] = PackedVersion[n.version]
    IN /\ Cardinality(res.db.rows) = Cardinality(db.rows)
       /\ db.rows \ {old} \subseteq res.db.rows
       /\ \E r \in res.db.rows :
            /\ r["id"] = old["id"]
            /\ r["version"] = old["version"]
            /\ r["contributor"] = old["contributor"]
            /\ r["slug"] = n.slug
            /\ r["name"] = n.fields["name"]
            /\ \A k \in DOMAIN old \ DOMAIN r : FALSE
       /\ res.db.grants = db.grants
       /\ res.db.nextId = db.nextId

\* C5 (amended): when a record with the exact (slug, version) exists, no
\* strictly newer version of the slug is registered, the definition is
\* valid with a supported engine, and force is set, the record is updated
\* in place with the fields of the definition; the number of records does
\* not change and no other record or grant is modified.
C5_ForceUpdatesInPlace ==
    \A ctype \in Tables : \A schema \in SchemasOf(ctype) :
        LET n == NormalForm[ctype][schema]
        IN (/\ Ready(ctype, schema)
            /\ HasExact(DbOf(ctype).rows, n.slug, n.version)
            /\ ~HasNewer(DbOf(ctype).rows, n.slug, n.version))
              => UpdatesInPlace(ctype, schema, n)

\* C5 as stated: whenever the exact (slug, version) exists and force is
\* set, the record takes the fields of the definition.
C5_Original ==
    \A ctype \in Tables : \A schema \in SchemasOf(ctype) :
        LET n == NormalForm[ctype][schema]
        IN (Valid(ctype, schema) /\ HasExact(DbOf(ctype).rows, n.slug, n.version))
              => UpdatesInPlace(ctype, schema, n)

\* a forced registration has updated the record of version 1.9 in place
C5_Witness ==
    /\ last.force
    /\ last.outcomes = <<"updated">>
    /\ \E ctype \in Tables : \E r \in DbOf(ctype).rows :
        r["version"] = PackedVersion[V1_9] /\ r["name"] = NameM

(***************************************************************************)
(* Properties of the version comparison (SpecVersion).                     *)
(***************************************************************************)
\* the numeric, component-wise order of two (major, minor, patch) triples
TripleGreater(a, b) ==
    \/ a[1] > b[1]
    \/ a[1] = b[1] /\ a[2] > b[2]
    \/ a[1] = b[1] /\ a[2] = b[2] /\ a[3] > b[3]

WithinBits(numbers) ==
    \A i \in 1..3 : numbers[i] < Pow2(VERSION_NUMBER_BITS[i])

\* the order of the version strings as strings, character by character
RECURSIVE StringGreater(_, _)
StringGreater(a, b) ==
    IF a = <<>> THEN FALSE
    ELSE IF b = <<>> THEN TRUE
    ELSE IF Head(a) # Head(b)
         THEN (IF Head(a) = "." THEN FALSE
               ELSE IF Head(b) = "." THEN TRUE
               ELSE DigitVal(Head(a)) > DigitVal(Head(b)))
    ELSE StringGreater(Tail(a), Tail(b))

V1_10_0 == Dotted(Dotted(<<"1">>, <<"1", "0">>), <<"0">>)

\* C6: the installed version counts as newer than the registered one
\* exactly when its (major, minor, patch) triple is greater in the numeric
\* lexicographic order, for triples within the widths of the packed fields;
\* 1.10.0 is newer than 1.9.0.
C6_PackedOrderIsNumeric ==
    (vout # "none" /\ WithinBits(VersionNumbers(vin[1])) /\ WithinBits(VersionNumbers(vin[2])))
        => (vout = "newer" <=> TripleGreater(VersionNumbers(vin[1]), VersionNumbers(vin[2])))

\* 1.10.0 was found newer than 1.9.0, against the order of the strings
C6_Witness ==
    /\ vin = <<V1_10_0, V1_9_0>>
    /\ vout = "newer"
    /\ StringGreater(vin[2], vin[1])

(***************************************************************************)
(* Properties of the normalisation (SpecNorm).                             *)
(***************************************************************************)
\* the type strings of the leaves of a field schema
RECURSIVE FieldTypes(_)
FieldTypes(schema) ==
    IF schema = <<>> THEN {}
    ELSE (IF Has(Head(schema), "group") THEN FieldTypes(Head(schema)["group"])
          ELSE IF Has(Head(schema), "type") THEN {Head(schema)["type"]}
          ELSE {})
         \cup FieldTypes(Tail(schema))

SchemaSections == {"input", "output", "static", "var", "schema"}

\* every type string of a definition
TypeStrings(d) ==
    (IF Has(d, "type") THEN {d["type"]} ELSE {})
    \cup UNION {FieldTypes(d[k]) : k \in SchemaSections \cap DOMAIN d}

WithColon(t) == IF t # <<>> /\ t[Len(t)] = ":" THEN t ELSE t \o <<":">>

\* C7 as stated: after the normalisation every type string is a type string
\* of the definition with ':' appended where it lacked one, and normalising
\* the result again changes nothing.
C7_NormalizeIdempotent ==
    /\ (Len(nout) >= 1 /\ nout[1].ok)
          => TypeStrings(nout[1].val) \subseteq {WithColon(t) : t \in TypeStrings(nin.schema)}
    /\ (Len(nout) = 2 /\ nout[2].ok) => nout[2].val = nout[1].val

\* C8 as stated: in a definition that goes on to validation every type
\* string ends with ':', the fields a descriptor merges into `schema` from
\* `static` and `var` included.
C8_AllTypesEndWithColon ==
    (Len(nout) >= 1 /\ nout[1].ok)
        => \A t \in TypeStrings(nout[1].val) : t # <<>> /\ t[Len(t)] = ":"

(***************************************************************************)
(* Properties of the batch loops (Spec).                                   *)
(***************************************************************************)
\* C9 as stated: no definition makes the normalisation raise; every
\* definition of a batch is processed or skipped and the batch goes on.
C9_NormalizeNeverRaises ==
    last.op \in Tables => (~Occurs("raised") /\ Len(last.outcomes) = last.n)

NotInvalid(ctype, batch) ==
    SelectSeq(batch, LAMBDA schema : PreparedOf(ctype, schema).outcome # "invalid")

NotInvalidOutcomes(outcomes) == SelectSeq(outcomes, LAMBDA outcome : outcome # "invalid")

\* C10: a definition that fails validation is skipped and does not end the
\* batch: a batch leaves the store, and has the outcomes for its other
\* definitions, that the batch without its invalid definitions has.
C10_InvalidSkipped ==
    \A ctype \in Tables : \A batch \in Batches(SchemasOf(ctype)), force \in BOOLEAN :
        LET whole == RegisterAll(ctype, DbOf(ctype), batch, force)
            rest == RegisterAll(ctype, DbOf(ctype), NotInvalid(ctype, batch), force)
        IN /\ whole.db = rest.db
           /\ NotInvalidOutcomes(whole.outcomes) = rest.outcomes

\* a batch skipped an invalid definition and registered the one after it
C10_Witness ==
    /\ last.op \in Tables
    /\ last.outcomes = <<"invalid", "inserted">>

HasEngine(batch) ==
    SelectSeq(batch, LAMBDA schema : PreparedProcess[schema].outcome # "engine")

HasEngineOutcomes(outcomes) == SelectSeq(outcomes, LAMBDA outcome : outcome # "engine")

\* the process definitions that pass validation and name a run language
\* without an execution engine
NoEngineSchemas ==
    {schema \in ProcessSchemas :
        /\ Valid("process", schema)
        /\ Has(NormalForm["process"][schema].fields, "run")
        /\ WithDefaultLanguage(NormalForm["process"][schema].fields)["run"]["language"]
              \notin SupportedLanguages}

\* C11: a process definition whose run language has no supported engine is
\* skipped alone: registering it changes no row and no grant, forced or
\* not, whatever is registered; and a batch leaves the store, and has the
\* outcomes for its other definitions, that the batch without such
\* definitions has.
C11_NoEngineSkippedAlone ==
    /\ \A schema \in NoEngineSchemas, force \in BOOLEAN :
          RegisterProcess(ProcessDb, schema, Admin, force)
              = [db |-> ProcessDb, outcome |-> "engine"]
    /\ \A batch \in Batches(ProcessSchemas), force \in BOOLEAN :
          LET whole == register_processes(ProcessDb, batch, Admin, force, <<>>)
              rest == register_processes(ProcessDb, HasEngine(batch), Admin, force, <<>>)
          IN /\ whole.db = rest.db
             /\ HasEngineOutcomes(whole.outcomes) = rest.outcomes

\* a forced batch skipped a definition without an engine, whose slug and
\* version are registered, and registered the definition after it
C11_Witness ==
    /\ last.op = "process"
    /\ last.force
    /\ last.outcomes = <<"engine", "inserted">>
    /\ \E r \in processes : r["slug"] = SlugB /\ r["version"] = PackedVersion[V1_10]

(***************************************************************************)
(* The command (SpecCommand): Command.handle with find_schemas, lines      *)
(* 59-94 and 279-321.  A path is a directory with its files in the order   *)
(* of os.walk, or something that is not a directory; a file has a name and *)
(* either the documents yaml.load reads from it or a text yaml.load        *)
(* rejects (yaml.load raises a YAMLError on a malformed document and       *)
(* returns None for an empty one).                                         *)
(***************************************************************************)
MaxFiles == 2     \* files under one path
MaxRuns == 2      \* runs of the command

\* str.lower()
LowerStr(s) == [i \in 1..Len(s) |-> Lower(s[i])]

\* str.endswith(suffix)
EndsWith(s, suffix) ==
    Len(s) >= Len(suffix) /\ SubSeq(s, Len(s) - Len(suffix) + 1, Len(s)) = suffix

\* schema_file.lower().endswith(('.yml', '.yaml'))
IsYamlName(schema_file) ==
    \/ EndsWith(LowerStr(schema_file), <<".", "y", "m", "l">>)
    \/ EndsWith(LowerStr(schema_file), <<".", "y", "a", "m", "l">>)

\* yaml.load(open(schema_file))
yaml_load(file) == IF file.malformed THEN Raise("YAMLError") ELSE Ok(file.docs)

\* dict.get(key, default)
Get(d, k, default) == IF Has(d, k) THEN d[k] ELSE default

\* x in list
InList(x, list) == \E i \in 1..Len(list) : list[i] = x

\* the slip of letting every definition through the name filter
MatchesEverything(schema, filters) == TRUE

\* not (filters and not (schema.get('slug', '') in filters
\*                       or schema.get('name', '') in filters))
MatchesFilters(schema, filters) ==
    ~(filters # <<>> /\ ~(InList(Get(schema, "slug", <<>>), filters)
                            \/ InList(Get(schema, "name", <<>>), filters)))

\* the test on the `run` / `schema` key of lines 86-90
HasTypeKey(schema, schema_type) ==
    /\ ~(schema_type = "process" /\ ~Has(schema, "run"))
    /\ ~(schema_type = "descriptor" /\ ~Has(schema, "schema"))

\* for schema in schemas: ... schema_matches.append(schema)
RECURSIVE MatchSchemas(_, _, _, _)
MatchSchemas(schemas, filters, schema_type, schema_matches) ==
    IF schemas = <<>> THEN schema_matches
    ELSE MatchSchemas(Tail(schemas), filters, schema_type,
                      IF MatchesFilters(Head(schemas), filters)
                         /\ HasTypeKey(Head(schemas), schema_type)
                      THEN Append(schema_matches, Head(schemas))
                      ELSE schema_matches)

\* for root, _, files in os.walk(schema_path): for schema_file in ...
RECURSIVE WalkFiles(_, _, _, _)
WalkFiles(files, filters, schema_type, schema_matches) ==
    IF files = <<>> THEN Ok(Some(schema_matches))
    ELSE IF ~IsYamlName(Head(files).name)
         THEN WalkFiles(Tail(files), filters, schema_type, schema_matches)
    ELSE LET schemas == yaml_load(Head(files))
         IN IF ~schemas.ok THEN schemas
            ELSE IF schemas.val = <<>>
                 THEN WalkFiles(Tail(files), filters, schema_type, schema_matches)
            ELSE WalkFiles(Tail(files), filters, schema_type,
                           MatchSchemas(schemas.val, filters, schema_type, schema_matches))

\* Command.find_schemas: None for a path that is no directory, else the
\* list of matches
find_schemas(schema_path, filters, schema_type) ==
    IF ~schema_path.isdir THEN Ok(None)
    ELSE IF schema_type \notin {"process", "descriptor"} THEN Raise("ValueError")
    ELSE WalkFiles(schema_path.files, filters, schema_type, <<>>)

\* the documents of the files
DocProcessA == [slug |-> SlugA, name |-> NameN, version |-> V1_9, type |-> TypeNoColon, run |-> Run]
DocProcessOld ==
    [name |-> OldNameB, label |-> NameN, version |-> V1_10, type |-> TypeNoColon, run |-> Run]
DocDescriptorA == [slug |-> SlugA, name |-> NameN, version |-> V1_9, schema |-> <<FieldNoColon>>]
DocDescriptorOld == [name |-> OldNameB, label |-> NameN, schema |-> <<FieldColon>>]
DocPlain == [slug |-> SlugB, name |-> NameN, version |-> V1_9]

File(name, malformed, docs) == [name |-> name, malformed |-> malformed, docs |-> docs]

FileNew == File(<<"a", ".", "y", "m", "l">>, FALSE, <<DocProcessA, DocDescriptorA>>)
FileOld == File(<<"b", ".", "Y", "A", "M", "L">>, FALSE, <<DocProcessOld, DocPlain, DocDescriptorOld>>)
FileMalformed == File(<<"m", ".", "y", "m", "l">>, TRUE, <<>>)
FileEmpty == File(<<"e", ".", "y", "a", "m", "l">>, FALSE, <<>>)
FileNoYaml == File(<<"y", "m", "l">>, FALSE, <<DocProcessA>>)

Files == {FileNew, FileOld, FileMalformed, FileEmpty, FileNoYaml}

Directory(files) == [isdir |-> TRUE, files |-> files]

NoDirectory == [isdir |-> FALSE, files |-> <<>>]

Paths == {NoDirectory} \cup {Directory(files) : files \in UNION {[1..n -> Files] : n \in 0..MaxFiles}}

\* the paths the finders give when the command is given none
FinderProcessPaths == <<Directory(<<FileNew>>)>>

FinderDescriptorPaths == <<Directory(<<FileOld>>)>>

\* the --schemas option: absent, or a list of names
Filters == {None, <<SlugA>>, <<NameN>>, <<OldNameB, SlugB>>, << <<>> >>}

\* for proc_path in processes_paths:
\*     process_schemas.extend(self.find_schemas(proc_path, ...))
RECURSIVE FindAll(_, _, _, _)
FindAll(paths, filters, schema_type, found) ==
    IF paths = <<>> THEN Ok(found)
    ELSE LET r == find_schemas(Head(paths), filters, schema_type)
         IN IF ~r.ok THEN r
            ELSE IF r.val = None THEN Raise("TypeError")
            ELSE FindAll(Tail(paths), filters, schema_type, found \o r.val[1])

Store == [processes |-> processes, descriptors |-> descriptors, perms |-> perms,
          nextId |-> nextId]

\* the table of one kind with the grants, as the loops read it
StoreDb(store, ctype) ==
    [rows |-> IF ctype = "process" THEN store.processes ELSE store.descriptors,
     grants |-> store.perms,
     nextId |-> store.nextId[ctype]]

\* the store with what a loop wrote
WithDb(store, ctype, db) ==
    [processes |-> IF ctype = "process" THEN db.rows ELSE store.processes,
     descriptors |-> IF ctype = "descriptor" THEN db.rows ELSE store.descriptors,
     perms |-> db.grants,
     nextId |-> [store.nextId EXCEPT ![ctype] = db.nextId]]

Failed(store, error, found) ==
    [status |-> "error", error |-> error, store |-> store, found |-> found]

\* the command after register_processes / register_descriptors gave `res`:
\* an exception of the loop ends the command
AfterRegistration(res, store, ctype, found) ==
    IF InList("raised", res.outcomes)
    THEN Failed(WithDb(store, ctype, res.db), "KeyError", found)
    ELSE [status |-> "done", error |-> "", store |-> WithDb(store, ctype, res.db),
          found |-> found]

\* lines 309-314: the process pass, `process_schemas` being what the
\* discovery gave
ProcessPass(store, process_schemas, force, user_admin) ==
    IF ~process_schemas.ok
    THEN Failed(store, process_schemas.exc, [process |-> <<>>, descriptor |-> <<>>])
    ELSE AfterRegistration(
             register_processes(StoreDb(store, "process"), process_schemas.val,
                                user_admin, force, <<>>),
             store, "process",
             [process |-> process_schemas.val, descriptor |-> <<>>])

\* lines 316-321: the descriptor pass, reached when the process pass ended
\* without an exception
DescriptorPass(before, descriptor_schemas, force, user_admin) ==
    IF before.status # "done" THEN before
    ELSE IF ~descriptor_schemas.ok
         THEN Failed(before.store, descriptor_schemas.exc, before.found)
    ELSE AfterRegistration(
             register_descriptors(StoreDb(before.store, "descriptor"),
                                  descriptor_schemas.val, user_admin, force, <<>>),
             before.store, "descriptor",
             [before.found EXCEPT !.descriptor = descriptor_schemas.val])

\* lines 301-321: both passes
HandlePasses(store, processes_paths, descriptors_paths, schemas, force, user_admin) ==
    DescriptorPass(
        ProcessPass(store, FindAll(processes_paths, schemas, "process", <<>>),
                    force, user_admin),
        FindAll(descriptors_paths, schemas, "descriptor", <<>>),
        force, user_admin)

\* the slip of going on without an administrator
NoAdminNever(users) == FALSE

\* if not users.exists(): ... exit(1)
NoAdmin(users) == users = <<>>

\* users.first(): None when there is no row
First(users) == IF users = <<>> THEN None ELSE Head(users)

\* Command.handle
handle(store, paths, schemas, force, users) ==
    IF NoAdmin(users)
    THEN [status |-> "exit", error |-> "", store |-> store,
          found |-> [process |-> <<>>, descriptor |-> <<>>]]
    ELSE HandlePasses(store,
                      IF Len(paths) = 0 THEN FinderProcessPaths ELSE paths,
                      IF Len(paths) = 0 THEN FinderDescriptorPaths ELSE paths,
                      schemas, force, First(users))

Superusers == {<<>>, <<Admin>>}

InitCommand ==
    /\ InitStore
    /\ InitPure
    /\ InitNoEntity
    /\ InitNoWeb
    /\ \E paths \in {<<>>} \cup {<<path>> : path \in Paths}, schemas \in Filters,
          force \in BOOLEAN, users \in Superusers :
          cmd = [paths |-> paths, schemas |-> schemas, force |-> force, users |-> users,
                 runs |-> 0, status |-> "idle", error |-> "",
                 found |-> [process |-> <<>>, descriptor |-> <<>>]]

\* one run of the command with the options and the accounts of the state
Handle ==
    /\ cmd.runs < MaxRuns
    /\ \E res \in {handle(Store, cmd.paths, cmd.schemas, cmd.force, cmd.users)} :
          /\ processes' = res.store.processes
          /\ descriptors' = res.store.descriptors
          /\ perms' = res.store.perms
          /\ nextId' = res.store.nextId
          /\ cmd' = [cmd EXCEPT !.runs = @ + 1, !.status = res.status,
                                !.error = res.error, !.found = res.found]
    /\ UNCHANGED <<last, vin, vout, nin, nout, ent, web>>

\* the superuser accounts are removed or created between two runs
SetSuperusers ==
    /\ cmd.runs < MaxRuns
    /\ \E users \in Superusers \ {cmd.users} :
          cmd' = [cmd EXCEPT !.users = users]
    /\ UNCHANGED <<processes, descriptors, perms, nextId, last, vin, vout, nin, nout, ent, web>>

NextCommand == Handle \/ SetSuperusers

SpecCommand == InitCommand /\ [][NextCommand]_vars

(***************************************************************************)
(* Properties of the command (SpecCommand).                                *)
(***************************************************************************)
NothingFound == [process |-> <<>>, descriptor |-> <<>>]

CommandOptions == ({<<>>} \cup {<<path>> : path \in Paths}) \X Filters \X BOOLEAN

\* C12: with no superuser account the command exits with a failure status
\* before it discovers or registers anything: whatever its options and
\* whatever is registered, no row and no grant is created or changed.
C12_NoAdminIsFatal ==
    \A options \in CommandOptions :
        handle(Store, options[1], options[2], options[3], <<>>)
            = [status |-> "exit", error |-> "", store |-> Store, found |-> NothingFound]

\* the command was run without a superuser over a store that an earlier run
\* had filled, and left it as it was
C12_Witness ==
    /\ cmd.status = "exit"
    /\ cmd.users = <<>>
    /\ cmd.runs = 2
    /\ processes # {}
    /\ perms # {}

\* the paths of each pass of a run
PathsOf(paths, schema_type) ==
    IF paths # <<>> THEN paths
    ELSE IF schema_type = "process" THEN FinderProcessPaths ELSE FinderDescriptorPaths

RECURSIVE DocsOfFiles(_)
DocsOfFiles(files) ==
    IF files = <<>> THEN <<>>
    ELSE (IF IsYamlName(Head(files).name) /\ ~Head(files).malformed
          THEN Head(files).docs ELSE <<>>)
         \o DocsOfFiles(Tail(files))

\* the documents of the well-formed YAML files under the paths
RECURSIVE DocsOfPaths(_)
DocsOfPaths(paths) ==
    IF paths = <<>> THEN <<>>
    ELSE DocsOfFiles(Head(paths).files) \o DocsOfPaths(Tail(paths))

AllDirectories(paths) == \A i \in 1..Len(paths) : paths[i].isdir

TypeKeyPresent(doc, schema_type) ==
    IF schema_type = "process" THEN "run" \in DOMAIN doc ELSE "schema" \in DOMAIN doc

\* the name filter as the claim states it
NamedInList(doc, filters) ==
    \/ filters = <<>>
    \/ "slug" \in DOMAIN doc /\ (\E i \in 1..Len(filters) : filters[i] = doc["slug"])
    \/ "name" \in DOMAIN doc /\ (\E i \in 1..Len(filters) : filters[i] = doc["name"])

\* the name filter with a missing slug or name counting as the empty string
NamedInListOrEmpty(doc, filters) ==
    \/ filters = <<>>
    \/ \E i \in 1..Len(filters) :
          \/ filters[i] = (IF "slug" \in DOMAIN doc THEN doc["slug"] ELSE <<>>)
          \/ filters[i] = (IF "name" \in DOMAIN doc THEN doc["name"] ELSE <<>>)

\* C13 as stated: a run with an administrator over directories is not
\* ended by a malformed YAML file; the definitions of the other files are
\* found.
C13_MalformedYamlSkipped ==
    (cmd.status \in {"done", "error"} /\ AllDirectories(cmd.paths))
        => /\ cmd.error # "YAMLError"
           /\ cmd.found.process
                = SelectSeq(DocsOfPaths(PathsOf(cmd.paths, "process")),
                            LAMBDA doc : /\ NamedInListOrEmpty(doc, cmd.schemas)
                                         /\ TypeKeyPresent(doc, "process"))

\* C14 (amended): a run that ends without an exception has found, for each
\* schema type, exactly the documents of the YAML files under the paths, in
\* their order, that (1) have their slug or their name in the filter list,
\* a missing slug or name counting as the empty string, or meet an empty or
\* absent list, and (2) have the `run` key (process) or the `schema` key
\* (descriptor).
C14_FindSchemasExact ==
    cmd.status = "done"
        => \A schema_type \in Tables :
              cmd.found[schema_type]
                = SelectSeq(DocsOfPaths(PathsOf(cmd.paths, schema_type)),
                            LAMBDA doc : /\ NamedInListOrEmpty(doc, cmd.schemas)
                                         /\ TypeKeyPresent(doc, schema_type))

\* C14 as stated: a document passes the name filter only when its own slug
\* or its own name is in the list.
C14_Original ==
    cmd.status = "done"
        => \A schema_type \in Tables :
              cmd.found[schema_type]
                = SelectSeq(DocsOfPaths(PathsOf(cmd.paths, schema_type)),
                            LAMBDA doc : /\ NamedInList(doc, cmd.schemas)
                                         /\ TypeKeyPresent(doc, schema_type))

\* a run with a name filter found one document of a file and dropped the
\* others
C14_Witness ==
    /\ cmd.status = "done"
    /\ cmd.schemas = <<OldNameB, SlugB>>
    /\ cmd.paths = <<Directory(<<FileNew, FileOld>>)>>
    /\ cmd.found = [process |-> <<DocProcessOld>>, descriptor |-> <<DocDescriptorOld>>]

(***************************************************************************)
(* Properties of the normalisation of one definition (SpecNorm).           *)
(***************************************************************************)
\* the defaults of the fields called 'name' of a section, in order
RECURSIVE NameDefaults(_)
NameDefaults(section) ==
    IF section = <<>> THEN <<>>
    ELSE (IF "group" \in DOMAIN Head(section) THEN NameDefaults(Head(section)["group"])
          ELSE IF /\ {"name", "default"} \subseteq DOMAIN Head(section)
                  /\ Head(section)["name"] = <<"n", "a", "m", "e">>
               THEN <<Head(section)["default"]>>
               ELSE <<>>)
         \o NameDefaults(Tail(section))

SectionDefaults(p, sections) ==
    LET RECURSIVE Of(_)
        Of(names) == IF names = <<>> THEN <<>>
                     ELSE (IF Head(names) \in DOMAIN p THEN NameDefaults(p[Head(names)])
                           ELSE <<>>) \o Of(Tail(names))
    IN Of(sections)

DataNameIs(p, defaults) ==
    IF defaults = <<>> THEN "data_name" \notin DOMAIN p
    ELSE "data_name" \in DOMAIN p /\ p["data_name"] = defaults[Len(defaults)]

\* C15 (amended): when the normalisation of a process completes, data_name
\* is the default of the (last) field called 'name' with a default of its
\* `static` section, and is not set when `static` has no such field; the
\* `var` section is not read.
C15_DataNameFromStatic ==
    (nin.kind = "process" /\ Len(nout) >= 1 /\ nout[1].ok)
        => DataNameIs(nout[1].val, SectionDefaults(nin.schema, <<"static">>))

\* C15 as stated: the field called 'name' is looked for in `static` and in
\* `var`.
C15_Original ==
    (nin.kind = "process" /\ Len(nout) >= 1 /\ nout[1].ok)
        => \/ DataNameIs(nout[1].val, SectionDefaults(nin.schema, <<"static", "var">>))
           \/ DataNameIs(nout[1].val, SectionDefaults(nin.schema, <<"var", "static">>))

\* an old-style process with the field in `static` and another in `var`:
\* data_name is the default of `static`, and both sections are dropped
C15_Witness ==
    /\ nin.kind = "process"
    /\ "slug" \notin DOMAIN nin.schema
    /\ {"static", "var"} \subseteq DOMAIN nin.schema
    /\ Len(nout) >= 1
    /\ nout[1].ok
    /\ nout[1].val["data_name"] = <<"x">>
    /\ "static" \notin DOMAIN nout[1].val

SameKey(d, e, k) == IF k \in DOMAIN d THEN k \in DOMAIN e /\ e[k] = d[k] ELSE k \notin DOMAIN e

\* C16: when the normalisation of a definition completes, a definition
\* without `slug` has slug = slugify(old name with ':' replaced by '-'),
\* name = the old label and no label; a definition with `slug` keeps its
\* slug, name and label as they were.
C16_BackwardCompatibleRename ==
    (Len(nout) >= 1 /\ nout[1].ok)
        => IF "slug" \notin DOMAIN nin.schema
           THEN /\ {"slug", "name"} \subseteq DOMAIN nout[1].val
                /\ nout[1].val["slug"] = slugify(ReplaceColon(nin.schema["name"]))
                /\ nout[1].val["name"] = nin.schema["label"]
                /\ "label" \notin DOMAIN nout[1].val
           ELSE \A k \in {"slug", "name", "label"} : SameKey(nin.schema, nout[1].val, k)

\* an old-style descriptor was renamed
C16_Witness ==
    /\ nin.kind = "descriptor"
    /\ "slug" \notin DOMAIN nin.schema
    /\ Len(nout) >= 1
    /\ nout[1].ok
    /\ nin.schema["name"] = OldNameColon
    /\ nout[1].val["slug"] = <<"a", "-", "b">>
    /\ nout[1].val["name"] = NameM
    /\ "label" \notin DOMAIN nout[1].val

(***************************************************************************)
(* EntityViewSet (views/entity.py): entities, their data objects and the   *)
(* collections that hold them.  `ent.db` is the database, `ent.last` the   *)
(* last request and its outcome.                                           *)
(***************************************************************************)
MaxRequests == 2     \* requests handled in a behaviour
MaxIds == 2          \* length of an `ids` list

EntityIds == {1, 2}
CollectionIds == {1, 2}
DataIds == {1, 2}

Alice == [name |-> "alice", authenticated |-> TRUE]
Anonymous == [name |-> "anon", authenticated |-> FALSE]
Users == {Alice, Anonymous}

\* the slip of deleting every data object of the entity
CanEditAll(db, user, perm, id) == TRUE

\* the slip of asking for no permission
AnyoneHasPerm(db, user, perm, id) == TRUE

\* user.has_perm(perm, obj)
has_perm(db, user, perm, id) == <<user.name, perm, id>> \in db.perms

\* distutils.util.strtobool
strtobool(val) ==
    LET v == LowerStr(val)
    IN IF v \in {<<"y">>, <<"y", "e", "s">>, <<"t">>, <<"t", "r", "u", "e">>,
                 <<"o", "n">>, <<"1">>}
       THEN Ok(1)
       ELSE IF v \in {<<"n">>, <<"n", "o">>, <<"f">>, <<"f", "a", "l", "s", "e">>,
                      <<"o", "f", "f">>, <<"0">>}
       THEN Ok(0)
       ELSE Raise("ValueError")

\* Entity.delete(): the row and its rows in the relations
delete_entity(db, e) ==
    [db EXCEPT !.entities = @ \ {e},
               !.entity_data[e] = {},
               !.collection_entities = [c \in CollectionIds |-> @[c] \ {e}]]

\* Data.delete(): the row and its rows in the relations; `purge` says whether
\* an entity left without data is removed with it
delete_data(db, d, purge) ==
    LET emptied == {e \in db.entities : db.entity_data[e] = {d}}
        db1 == [db EXCEPT !.data = @ \ {d},
                          !.entity_data = [e \in EntityIds |-> @[e] \ {d}],
                          !.collection_data = [c \in CollectionIds |-> @[c] \ {d}]]
    IN IF purge
       THEN [db1 EXCEPT !.entities = @ \ emptied,
                        !.collection_entities = [c \in CollectionIds |-> @[c] \ emptied]]
       ELSE db1

Min(S) == CHOOSE x \in S : \A y \in S : x <= y

\* for data in obj.data.all(): if user.has_perm('edit_data', data): data.delete()
RECURSIVE DeleteContent(_, _, _, _)
DeleteContent(db, user, todo, purge) ==
    IF todo = {} THEN db
    ELSE LET d == Min(todo)
         IN DeleteContent(IF has_perm(db, user, "edit_data", d)
                          THEN delete_data(db, d, purge) ELSE db,
                          user, todo \ {d}, purge)

Result(db, status) == [db |-> db, status |-> status]

\* DestroyModelMixin.destroy
DestroyModel(db, e) ==
    IF e \notin db.entities THEN Result(db, "NotFound")
    ELSE Result(delete_entity(db, e), "204")

\* EntityViewSet.destroy
destroy(db, e, user, delete_content, purge) ==
    IF e \notin db.entities THEN Result(db, "NotFound")
    ELSE LET flag == strtobool(IF delete_content = None
                               THEN <<"f", "a", "l", "s", "e">>
                               ELSE delete_content[1])
         IN IF ~flag.ok THEN Result(db, flag.exc)
            ELSE IF flag.val = 1
            THEN LET db1 == DeleteContent(db, user, db.entity_data[e], purge)
                 IN IF e \notin db1.entities THEN Result(db1, "204")
                    ELSE DestroyModel(db1, e)
            ELSE DestroyModel(db, e)

Range(seq) == {seq[i] : i \in 1..Len(seq)}

\* the slip of adding nothing to the collections
NoCollections(db, e) == {}

\* entity.collections.all()
CollectionsOf(db, e) == {c \in db.collections : e \in db.collection_entities[c]}

\* CollectionViewSet.add_data
CollectionAddData(db, e, data) ==
    IF e \notin db.entities THEN Result(db, "NotFound")
    ELSE IF data = None THEN Result(db, "400")
    ELSE IF ~(Range(data[1]) \subseteq db.data) THEN Result(db, "400")
    ELSE Result([db EXCEPT !.entity_data[e] = @ \cup Range(data[1])], "200")

\* EntityViewSet.add_data
add_data(db, e, data) ==
    LET resp == CollectionAddData(db, e, data)
    IN IF resp.status = "NotFound" THEN resp
       ELSE IF CollectionsOf(resp.db, e) = {} THEN resp
       ELSE IF data = None THEN Result(db, "KeyError")
       ELSE IF ~(Range(data[1]) \subseteq db.data) THEN Result(db, "IntegrityError")
       ELSE Result([resp.db EXCEPT !.collection_data =
                        [c \in CollectionIds |->
                            IF c \in CollectionsOf(resp.db, e)
                            THEN @[c] \cup Range(data[1]) ELSE @[c]]],
                   resp.status)

\* EntityViewSet._check_collection_permissions
check_collection_permissions(db, collection_id, user) ==
    IF collection_id \notin db.collections THEN "ValidationError"
    ELSE IF ~has_perm(db, user, "add_collection", collection_id)
    THEN IF user.authenticated THEN "PermissionDenied" ELSE "NotFound"
    ELSE "ok"

\* the slip of checking only the first id
CheckFirst(db, ids, user) ==
    IF ids = <<>> THEN "ok" ELSE check_collection_permissions(db, Head(ids), user)

\* for collection_id in request.data['ids']: self._check_collection_permissions(...)
RECURSIVE CheckAll(_, _, _)
CheckAll(db, ids, user) ==
    IF ids = <<>> THEN "ok"
    ELSE LET checked == check_collection_permissions(db, Head(ids), user)
         IN IF checked # "ok" THEN checked ELSE CheckAll(db, Tail(ids), user)

RECURSIVE AddToAll(_, _, _)
AddToAll(db, e, ids) ==
    IF ids = <<>> THEN db
    ELSE AddToAll([db EXCEPT !.collection_entities[Head(ids)] = @ \cup {e},
                             !.collection_data[Head(ids)] = @ \cup db.entity_data[e]],
                  e, Tail(ids))

RECURSIVE RemoveFromAll(_, _, _)
RemoveFromAll(db, e, ids) ==
    IF ids = <<>> THEN db
    ELSE RemoveFromAll([db EXCEPT !.collection_entities[Head(ids)] = @ \ {e},
                                  !.collection_data[Head(ids)] = @ \ db.entity_data[e]],
                       e, Tail(ids))

\* EntityViewSet.add_to_collection
add_to_collection(db, e, user, data) ==
    IF e \notin db.entities THEN Result(db, "NotFound")
    ELSE IF data = None THEN Result(db, "400")
    ELSE LET checked == CheckAll(db, data[1], user)
         IN IF checked # "ok" THEN Result(db, checked)
            ELSE Result(AddToAll(db, e, data[1]), "200")

\* EntityViewSet.remove_from_collection
remove_from_collection(db, e, user, data) ==
    IF e \notin db.entities THEN Result(db, "NotFound")
    ELSE IF data = None THEN Result(db, "400")
    ELSE LET checked == CheckAll(db, data[1], user)
         IN IF checked # "ok" THEN Result(db, checked)
            ELSE Result(RemoveFromAll(db, e, data[1]), "200")

\* request.query_params.get('delete_content')
DeleteContentParams ==
    {None, Some(<<"T", "r", "u", "e">>), Some(<<"1">>), Some(<<"f", "a", "l", "s", "e">>),
     Some(<<"x">>)}

\* request.data: without `ids`, or with a list of ids
IdLists(S) == {None} \cup {Some(ids) : ids \in UNION {[1..n -> S] : n \in 0..MaxIds}}

NoRequest == [op |-> "none"]

\* the data of the entities at the start: the two entities share data object 2
EntityData == [e \in EntityIds |-> IF e = 1 THEN {1, 2} ELSE {2}]

InitEntity ==
    /\ InitStore
    /\ InitPure
    /\ InitNoCommand
    /\ InitNoWeb
    /\ \E edit \in SUBSET DataIds, collections \in {{1}, {1, 2}} :
       \E add \in SUBSET collections, held \in SUBSET EntityIds :
          ent = [db |-> [data |-> DataIds,
                         entities |-> EntityIds,
                         entity_data |-> EntityData,
                         collections |-> collections,
                         collection_entities |->
                             [c \in CollectionIds |-> IF c = 1 THEN held ELSE {}],
                         collection_data |->
                             [c \in CollectionIds |->
                                 IF c = 1 THEN UNION {EntityData[e] : e \in held} ELSE {}],
                         perms |-> {<<Alice.name, "edit_data", d>> : d \in edit}
                                   \cup {<<Alice.name, "add_collection", c>> : c \in add}],
                 requests |-> 0,
                 last |-> NoRequest]

Handled(res, request) ==
    /\ ent' = [db |-> res.db, requests |-> ent.requests + 1,
               last |-> [k \in DOMAIN request \cup {"status"} |->
                            IF k = "status" THEN res.status ELSE request[k]]]
    /\ UNCHANGED <<processes, descriptors, perms, nextId, last, vin, vout, nin, nout, cmd, web>>

Destroy ==
    /\ ent.requests < MaxRequests
    /\ \E e \in EntityIds, user \in Users, delete_content \in DeleteContentParams,
          purge \in BOOLEAN :
          Handled(destroy(ent.db, e, user, delete_content, purge),
                  [op |-> "destroy", entity |-> e, user |-> user,
                   param |-> delete_content, had |-> ent.db.entity_data[e]])

AddData ==
    /\ ent.requests < MaxRequests
    /\ \E e \in EntityIds, user \in Users, data \in IdLists(DataIds) :
          Handled(add_data(ent.db, e, data),
                  [op |-> "add_data", entity |-> e, user |-> user,
                   param |-> data, had |-> ent.db.entity_data[e]])

AddToCollection ==
    /\ ent.requests < MaxRequests
    /\ \E e \in EntityIds, user \in Users, data \in IdLists(CollectionIds) :
          Handled(add_to_collection(ent.db, e, user, data),
                  [op |-> "add_to_collection", entity |-> e, user |-> user,
                   param |-> data, had |-> ent.db.entity_data[e]])

RemoveFromCollection ==
    /\ ent.requests < MaxRequests
    /\ \E e \in EntityIds, user \in Users, data \in IdLists(CollectionIds) :
          Handled(remove_from_collection(ent.db, e, user, data),
                  [op |-> "remove_from_collection", entity |-> e, user |-> user,
                   param |-> data, had |-> ent.db.entity_data[e]])

NextEntity == Destroy \/ AddData \/ AddToCollection \/ RemoveFromCollection

SpecEntity == InitEntity /\ [][NextEntity]_vars

(***************************************************************************)
(* Properties of the entity requests (SpecEntity).                         *)
(***************************************************************************)
DestroyedWithContent ==
    /\ ent.last.op = "destroy"
    /\ ent.last.status = "204"
    /\ ent.last.param \in {Some(<<"T", "r", "u", "e">>), Some(<<"1">>)}

C18_AddDataReachesCollections ==
    (ent.last.op = "add_data" /\ ent.last.status = "200")
        => /\ ent.last.param # None
           /\ \A i \in 1..Len(ent.last.param[1]) :
                 /\ ent.last.param[1][i] \in ent.db.entity_data[ent.last.entity]
                 /\ \A c \in ent.db.collections :
                       ent.last.entity \in ent.db.collection_entities[c]
                          => ent.last.param[1][i] \in ent.db.collection_data[c]

\* data object 1 was added to entity 2, the only entity of collection 1
C18_Witness ==
    /\ ent.last.op = "add_data"
    /\ ent.last.status = "200"
    /\ ent.last.entity = 2
    /\ ent.last.param = Some(<<1>>)
    /\ ent.last.had = {2}
    /\ ent.db.collection_entities[1] = {2}
    /\ ent.db.collection_data[1] = {1, 2}
    /\ ent.requests = 1

(***************************************************************************)
(* The create mixins of views.py.  `web.db` holds the created objects, the *)
(* projects and the object permissions, `web.last` the last request.       *)
(***************************************************************************)
MaxPosts == 2        \* create requests handled in a behaviour

ProjectIds == {1, 2}             \* the projects that exist
AlicePk == 1
OtherPk == 2

\* request.user.pk
user_pk(user) == IF user = Alice THEN Some(AlicePk) ELSE None

\* the slip of keeping the posted contributor
PostedContributor(data, user) == data

\* request.data['contributor'] = user.pk
SetContributor(data, user) == Put(data, "contributor", user_pk(user)[1])

\* serializer.is_valid(): the required fields are there
is_valid(data) == {"name", "contributor"} \subseteq DOMAIN data

\* Model.save(): the unique constraint on the slug
save(db, kind, data) ==
    IF \E o \in db.objects : o.kind = kind /\ o.slug = data["slug"]
    THEN Raise("IntegrityError")
    ELSE Ok([db EXCEPT !.objects = @ \cup {[id |-> db.next_id, kind |-> kind,
                                           slug |-> data["slug"],
                                           contributor |-> data["contributor"]]},
                       !.next_id = @ + 1])

\* CreateModelMixin.create
CreateModel(db, kind, data) ==
    IF ~is_valid(data) THEN Result(db, "400")
    ELSE LET saved == save(db, kind, data)
         IN IF saved.ok THEN Result(saved.val, "201") ELSE Result(db, saved.exc)

\* ResolweCreateModelMixin.create
create(db, kind, user, data) ==
    IF ~user.authenticated THEN Result(db, "NotFound")
    ELSE LET resp == CreateModel(db, kind, SetContributor(data, user))
         IN IF resp.status = "IntegrityError" THEN Result(db, "409") ELSE resp

\* the slip of reading the first of several projects
SomeProject(projects) == Len(projects) >= 1

\* len(projects) == 1
ExactlyOne(projects) == Len(projects) = 1

\* ResolweCreateDataModelMixin.create
create_data(db, user, data) ==
    LET projects == Get(data, "projects", <<>>)
    IN IF ~ExactlyOne(projects) THEN Result(db, "400")
       ELSE IF projects[1] \notin db.projects THEN Result(db, "400")
       ELSE IF ~has_perm(db, user, "add_project", projects[1])
       THEN IF user.authenticated THEN Result(db, "PermissionDenied")
            ELSE Result(db, "NotFound")
       ELSE create(db, "data", user, data)

\* request.data
Post(name, slug, contributor, projects) ==
    [k \in {"slug"} \cup (IF name THEN {"name"} ELSE {})
             \cup (IF contributor = None THEN {} ELSE {"contributor"})
             \cup (IF projects = None THEN {} ELSE {"projects"}) |->
        CASE k = "slug" -> slug
          [] k = "name" -> NameN
          [] k = "contributor" -> contributor[1]
          [] k = "projects" -> projects[1]]

PostedProjects ==
    {None} \cup {Some(ids) : ids \in {<<>>, <<1>>, <<2>>, <<3>>, <<1, 2>>, <<3, 1>>}}

Posts ==
    {Post(name, slug, contributor, projects) :
        name \in BOOLEAN, slug \in {SlugA, SlugB},
        contributor \in {None, Some(AlicePk), Some(OtherPk)},
        projects \in PostedProjects}

InitCreate ==
    /\ InitStore
    /\ InitPure
    /\ InitNoCommand
    /\ InitNoEntity
    /\ \E alice \in SUBSET ProjectIds, anon \in SUBSET {1} :
          web = [db |-> [objects |-> {},
                         projects |-> ProjectIds,
                         perms |-> {<<Alice.name, "add_project", p>> : p \in alice}
                                   \cup {<<Anonymous.name, "add_project", p>> : p \in anon},
                         next_id |-> 1],
                 requests |-> 0,
                 last |-> NoRequest]

Answered(res, request) ==
    /\ web' = [db |-> res.db, requests |-> web.requests + 1,
               last |-> [k \in DOMAIN request \cup {"status", "created"} |->
                            IF k = "status" THEN res.status
                            ELSE IF k = "created" THEN res.db.objects \ web.db.objects
                            ELSE request[k]]]
    /\ UNCHANGED <<processes, descriptors, perms, nextId, last, vin, vout, nin, nout, cmd, ent>>

Create ==
    /\ web.requests < MaxPosts
    /\ \E user \in Users, data \in Posts :
          Answered(create(web.db, "model", user, data),
                   [op |-> "create", user |-> user, data |-> data])

CreateData ==
    /\ web.requests < MaxPosts
    /\ \E user \in Users, data \in Posts :
          Answered(create_data(web.db, user, data),
                   [op |-> "create_data", user |-> user, data |-> data])

NextCreate == Create \/ CreateData

SpecCreate == InitCreate /\ [][NextCreate]_vars

(***************************************************************************)
(* Properties of the create requests (SpecCreate).                         *)
(***************************************************************************)
\* the slug the request posts is the slug of an object made by an earlier
\* request
SlugTaken(kind) ==
    \E o \in web.db.objects \ web.last.created :
        o.kind = kind /\ o.slug = web.last.data["slug"]

\* C19: ResolweCreateModelMixin.create answers an unauthenticated request
\* with NotFound and creates nothing; an object it creates has the
\* requesting user's id as contributor whatever the request posted; and a
\* creation that meets an IntegrityError is answered 409, nothing is raised.
C19_CreateContract ==
    web.last.op = "create"
        => /\ ~web.last.user.authenticated
                 => (web.last.status = "NotFound" /\ web.last.created = {})
           /\ \A o \in web.last.created :
                 /\ web.last.user.authenticated
                 /\ o.contributor = AlicePk
                 /\ web.last.user = Alice
           /\ web.last.status # "IntegrityError"
           /\ (web.last.user.authenticated /\ "name" \in DOMAIN web.last.data
                  /\ SlugTaken("model"))
                 => (web.last.status = "409" /\ web.last.created = {})

\* a request that posted another user's id as contributor created an object
\* with the requesting user's id
C19_Witness ==
    /\ web.last.op = "create"
    /\ web.last.user = Alice
    /\ "contributor" \in DOMAIN web.last.data
    /\ web.last.data["contributor"] = OtherPk
    /\ web.last.status = "201"
    /\ \E o \in web.last.created : o.contributor = AlicePk

\* the posted projects
ListedProjects == IF "projects" \in DOMAIN web.last.data THEN web.last.data["projects"] ELSE <<>>

\* C20: ResolweCreateDataModelMixin.create creates a Data object only when
\* exactly one project is listed, the project exists and the user holds
\* `add` on it; otherwise nothing is created and the answer is 400 (not one
\* project, or no such project), PermissionDenied (authenticated user
\* without the permission) or NotFound (unauthenticated user without it).
C20_CreateDataContract ==
    web.last.op = "create_data"
        => IF Len(ListedProjects) # 1 \/ ListedProjects[1] \notin web.db.projects
           THEN web.last.status = "400" /\ web.last.created = {}
           ELSE IF <<web.last.user.name, "add_project", ListedProjects[1]>> \notin web.db.perms
           THEN /\ web.last.status
                      = (IF web.last.user.authenticated THEN "PermissionDenied" ELSE "NotFound")
                /\ web.last.created = {}
           ELSE \A o \in web.last.created : o.kind = "data"

\* a Data object was created for the one listed project, on which the user
\* holds `add` while holding it on no other project
C20_Witness ==
    /\ web.last.op = "create_data"
    /\ web.last.user = Alice
    /\ ListedProjects = <<1>>
    /\ web.last.status = "201"
    /\ web.last.created # {}
    /\ <<Alice.name, "add_project", 2>> \notin web.db.perms
    /\ web.requests = 1

(***************************************************************************)
(* Properties of the collection membership requests (SpecEntity).          *)
(***************************************************************************)
\* C26 as stated: for every entity and every collection that contains it,
\* every data object of the entity is in the data of the collection.
C26_CollectionHoldsEntityData ==
    \A e \in ent.db.entities : \A c \in ent.db.collections :
        e \in ent.db.collection_entities[c]
            => ent.db.entity_data[e] \subseteq ent.db.collection_data[c]

\* the answer the permission check gives for a collection id that fails it
Refusal(db, user, id) ==
    IF id \notin db.collections THEN "ValidationError"
    ELSE IF user.authenticated THEN "PermissionDenied" ELSE "NotFound"

\* the positions of `ids` whose collection does not exist or on which the
\* user lacks `add`
Refused(db, user, ids) ==
    {i \in 1..Len(ids) :
        \/ ids[i] \notin db.collections
        \/ <<user.name, "add_collection", ids[i]>> \notin db.perms}

\* C23: an add_to_collection or remove_from_collection request on an entity
\* with an id that names no collection, or a collection on which the user
\* lacks `add`, is refused (ValidationError, PermissionDenied or NotFound)
\* and changes nothing, whatever the other ids are; a request without `ids`
\* is answered 400 and changes nothing.
C23_MembershipAllOrNothing ==
    [][(/\ ent'.requests = ent.requests + 1
        /\ ent'.last.op \in {"add_to_collection", "remove_from_collection"}
        /\ ent'.last.entity \in ent.db.entities)
          => IF ent'.last.param = None
             THEN ent'.last.status = "400" /\ ent'.db = ent.db
             ELSE Refused(ent.db, ent'.last.user, ent'.last.param[1]) # {}
                     => /\ ent'.db = ent.db
                        /\ \E i \in Refused(ent.db, ent'.last.user, ent'.last.param[1]) :
                              ent'.last.status
                                 = Refusal(ent.db, ent'.last.user, ent'.last.param[1][i])]_vars

\* a request to add entity 2 to collection 1, on which the user holds `add`,
\* and to collection 2, which fails the check, was refused and left entity 2
\* out of collection 1
C23_Witness ==
    /\ ent.last.op = "add_to_collection"
    /\ ent.last.user = Alice
    /\ ent.last.entity = 2
    /\ ent.last.param = Some(<<1, 2>>)
    /\ ent.last.status \in {"ValidationError", "PermissionDenied"}
    /\ <<Alice.name, "add_collection", 1>> \in ent.db.perms
    /\ 2 \notin ent.db.collection_entities[1]
    /\ ent.requests = 1

(***************************************************************************)
(* ResolwePermissionsMixin (views.py): the object permissions of users,    *)
(* groups and the public, changed by a permissions request.  `web.db.perms`*)
(* holds the grants as <<holder, codename, object>>.                       *)
(***************************************************************************)
MaxCalls == 2        \* permission requests handled in a behaviour

PermView == <<"v", "i", "e", "w">>
PermViewCapital == <<"V", "i", "e", "w">>
PermDownload == <<"d", "o", "w", "n", "l", "o", "a", "d">>
PermEdit == <<"e", "d", "i", "t">>
PermShare == <<"s", "h", "a", "r", "e">>
PermAll == <<"A", "L", "L">>

\* str(content_type) of the object
ContentTypeName == <<"t">>

\* '{}_{}'.format(perm.lower(), content_type)
Codename(perm, content_type) == LowerStr(perm) \o <<"_">> \o content_type

\* the Permission rows of the content type
PermissionRows == {Codename(perm, ContentTypeName) :
                      perm \in {PermView, PermDownload, PermEdit, PermShare}}

\* perm.startswith(prefix)
startswith(s, prefix) == Len(s) >= Len(prefix) /\ SubSeq(s, 1, Len(prefix)) = prefix

\* the slip of offering every permission to the public
KeepAllPermissions(names) == names

\* ResolwePermissionsMixin.filter_public_permisions
filter_public_permisions(names) ==
    SelectSeq(names, LAMBDA perm : startswith(perm, PermView) \/ startswith(perm, PermDownload))

TheObject == 1
BobPk == 2
UnknownPk == 9
StaffGroupPk == 1
PublicHolder == Anonymous.name

\* ResolwePermissionsMixin._fetch_user: the holder, or None
fetch_user(query) ==
    IF query = AlicePk THEN Some(Alice.name)
    ELSE IF query = BobPk THEN Some("bob")
    ELSE None

\* ResolwePermissionsMixin._fetch_group: the holder, or None
fetch_group(query) == IF query = StaffGroupPk THEN Some("group staff") ELSE None

\* assign_perm for every perm of the list; a codename without Permission
\* row raises Permission.DoesNotExist, which the wrapper passes over
AssignEach(grants, holder, names, content_type, obj) ==
    grants \cup {<<holder, Codename(names[i], content_type), obj>> :
                    i \in {j \in 1..Len(names) :
                              Codename(names[j], content_type) \in PermissionRows}}

\* remove_perm for every perm of the list
RemoveEach(grants, holder, names, content_type, obj) ==
    grants \ {<<holder, Codename(names[i], content_type), obj>> : i \in 1..Len(names)}

\* 'ALL' stands for full_permissions
Requested(value, full_permissions) == IF value = PermAll THEN full_permissions ELSE value

\* the `add` or `remove` part of the `users` or `groups` section
RECURSIVE UpdateHolders(_, _, _, _, _, _, _)
UpdateHolders(grants, kind, part, todo, adding, full_permissions, obj) ==
    IF todo = {} THEN grants
    ELSE LET id == Min(todo)
             holder == IF kind = "users" THEN fetch_user(id) ELSE fetch_group(id)
             names == Requested(part[id], full_permissions)
             grants1 == IF holder = None THEN grants
                        ELSE IF adding
                        THEN AssignEach(grants, holder[1], names, ContentTypeName, obj)
                        ELSE RemoveEach(grants, holder[1], names, ContentTypeName, obj)
         IN UpdateHolders(grants1, kind, part, todo \ {id}, adding, full_permissions, obj)

\* the `users` or the `groups` section
UpdateSection(grants, data, kind, full_permissions, obj) ==
    IF ~Has(data, kind) THEN grants
    ELSE LET added == IF Has(data[kind], "add")
                      THEN UpdateHolders(grants, kind, data[kind]["add"],
                                         DOMAIN data[kind]["add"], TRUE,
                                         full_permissions, obj)
                      ELSE grants
         IN IF Has(data[kind], "remove")
            THEN UpdateHolders(added, kind, data[kind]["remove"],
                               DOMAIN data[kind]["remove"], FALSE, full_permissions, obj)
            ELSE added

\* the `public` section
UpdatePublic(grants, data, full_permissions, obj) ==
    IF ~Has(data, "public") THEN grants
    ELSE LET added == IF Has(data["public"], "add")
                      THEN AssignEach(grants, PublicHolder,
                                      filter_public_permisions(
                                          Requested(data["public"]["add"], full_permissions)),
                                      ContentTypeName, obj)
                      ELSE grants
         IN IF Has(data["public"], "remove")
            THEN RemoveEach(added, PublicHolder,
                            filter_public_permisions(
                                Requested(data["public"]["remove"], full_permissions)),
                            ContentTypeName, obj)
            ELSE added

\* ResolwePermissionsMixin._update_permission
update_permission(grants, obj, data, full_permissions) ==
    UpdatePublic(UpdateSection(UpdateSection(grants, data, "users", full_permissions, obj),
                               data, "groups", full_permissions, obj),
                 data, full_permissions, obj)

\* ResolwePermissionsMixin.detail_permissions
detail_permissions(db, user, pk, data) ==
    IF pk \notin db.objects THEN Result(db, "NotFound")
    ELSE IF ~has_perm(db, user, Codename(PermShare, ContentTypeName), pk)
    THEN IF user.authenticated THEN Result(db, "PermissionDenied")
         ELSE Result(db, "NotFound")
    ELSE Result([db EXCEPT !.perms = update_permission(@, pk, data, db.full_permissions)],
                "200")

\* obj._meta.permissions, by name or by codename
FullPermissionNames == <<PermView, PermEdit, PermShare, PermDownload>>
FullPermissionCodenames ==
    [i \in 1..Len(FullPermissionNames) |-> Codename(FullPermissionNames[i], ContentTypeName)]

\* request.data
HolderSections ==
    {EmptyDict,
     [add |-> (AlicePk :> <<PermEdit, PermViewCapital>>)],
     [add |-> (BobPk :> PermAll), remove |-> (AlicePk :> <<PermShare>>)],
     [remove |-> (AlicePk :> PermAll) @@ (UnknownPk :> <<PermView>>)]}

PublicSections ==
    {EmptyDict,
     [add |-> PermAll],
     [add |-> <<PermEdit, PermView>>],
     [add |-> <<PermViewCapital, PermDownload, PermShare>>],
     [remove |-> PermAll],
     [remove |-> <<PermEdit, PermView>>],
     [add |-> <<PermShare>>, remove |-> <<PermDownload>>]}

PermissionPayloads ==
    {[k \in (IF users = EmptyDict THEN {} ELSE {"users"})
            \cup (IF groups = EmptyDict THEN {} ELSE {"groups"})
            \cup (IF public = EmptyDict THEN {} ELSE {"public"}) |->
         CASE k = "users" -> users [] k = "groups" -> groups [] k = "public" -> public] :
        users \in HolderSections,
        groups \in {EmptyDict, [add |-> (StaffGroupPk :> <<PermEdit>>)]},
        public \in PublicSections}

InitPermissions ==
    /\ InitStore
    /\ InitPure
    /\ InitNoCommand
    /\ InitNoEntity
    /\ \E public \in SUBSET {PermView, PermEdit}, sharing \in SUBSET {Alice.name},
          full_permissions \in {FullPermissionNames, FullPermissionCodenames} :
          web = [db |-> [objects |-> {TheObject},
                         full_permissions |-> full_permissions,
                         perms |-> {<<PublicHolder, Codename(perm, ContentTypeName), TheObject>> :
                                       perm \in public}
                                   \cup {<<name, Codename(PermShare, ContentTypeName), TheObject>> :
                                            name \in sharing}],
                 requests |-> 0,
                 last |-> NoRequest]

Permitted(res, request) ==
    /\ web' = [db |-> res.db, requests |-> web.requests + 1,
               last |-> [k \in DOMAIN request \cup {"status", "before"} |->
                            IF k = "status" THEN res.status
                            ELSE IF k = "before" THEN web.db.perms
                            ELSE request[k]]]
    /\ UNCHANGED <<processes, descriptors, perms, nextId, last, vin, vout, nin, nout, cmd, ent>>

\* a call of _update_permission on the object
UpdatePermission ==
    /\ web.requests < MaxCalls
    /\ \E data \in PermissionPayloads :
          Permitted(Result([web.db EXCEPT !.perms =
                               update_permission(@, TheObject, data, web.db.full_permissions)],
                           "none"),
                    [op |-> "_update_permission", data |-> data])

DetailPermissions ==
    /\ web.requests < MaxCalls
    /\ \E user \in Users, pk \in {TheObject, 2}, data \in PermissionPayloads :
          Permitted(detail_permissions(web.db, user, pk, data),
                    [op |-> "detail_permissions", user |-> user, pk |-> pk, data |-> data])

NextPermissions == UpdatePermission \/ DetailPermissions

SpecPermissions == InitPermissions /\ [][NextPermissions]_vars

(***************************************************************************)
(* Properties of the permission requests (SpecPermissions).                *)
(***************************************************************************)
\* the codename begins with 'view' or 'download'
ViewOrDownload(codename) ==
    \/ (Len(codename) >= 4 /\ SubSeq(codename, 1, 4) = <<"v", "i", "e", "w">>)
    \/ (Len(codename) >= 8
           /\ SubSeq(codename, 1, 8) = <<"d", "o", "w", "n", "l", "o", "a", "d">>)

\* the grants that one of the two sets has and the other has not
Changed(before, after) == (before \ after) \cup (after \ before)

\* C21: no step grants the public a permission, or takes one from it, other
\* than a permission whose name begins with 'view' or 'download', whatever
\* the `public` section asks for ('ALL' included) and whatever the other
\* sections hold.
C21_PublicOnlyViewOrDownload ==
    [][\A grant \in Changed(web.db.perms, web'.db.perms) :
          grant[1] = "anon" => ViewOrDownload(grant[2])]_vars

\* a call whose `public` section asked for edit and view gave the public
\* view only
C21_Witness ==
    /\ web.last.op = "_update_permission"
    /\ "public" \in DOMAIN web.last.data
    /\ web.last.data["public"] = [add |-> <<PermEdit, PermView>>]
    /\ \A grant \in web.last.before : grant[1] # "anon"
    /\ {grant \in web.db.perms : grant[1] = "anon"}
          = {<<"anon", <<"v", "i", "e", "w", "_", "t">>, TheObject>>}

\* C24: a detail_permissions request on an object by a user without `share`
\* on it is answered PermissionDenied (authenticated) or NotFound (not
\* authenticated) and leaves every grant as it was.
C24_ShareRequired ==
    [][(/\ web'.requests = web.requests + 1
        /\ web'.last.op = "detail_permissions"
        /\ web'.last.pk \in web.db.objects
        /\ <<web'.last.user.name, <<"s", "h", "a", "r", "e", "_", "t">>, web'.last.pk>>
              \notin web.db.perms)
          => /\ web'.db = web.db
             /\ web'.last.status
                   = (IF web'.last.user.authenticated THEN "PermissionDenied"
                      ELSE "NotFound")]_vars

\* a request of a user without `share` that asked to grant edit to a user
\* and view to the public was denied and changed nothing
C24_Witness ==
    /\ web.last.op = "detail_permissions"
    /\ web.last.user = Alice
    /\ web.last.pk = TheObject
    /\ web.last.status = "PermissionDenied"
    /\ {"users", "public"} \subseteq DOMAIN web.last.data
    /\ web.db.perms = web.last.before
    /\ web.requests = 1

(***************************************************************************)
(* EntityViewSet.set_content_permissions (views/entity.py): a permission   *)
(* payload applied to the data objects of an entity.                       *)
(***************************************************************************)
PermAdd == <<"a", "d", "d">>
DataTypeName == <<"d", "a", "t", "a">>

\* resolwe.permissions.utils.remove_permission: the payload without the
\* permission in any of its lists
remove_permission(payload, permission) ==
    LET Without(value) ==
            IF value = PermAll THEN value
            ELSE SelectSeq(value, LAMBDA perm : perm # permission)
        Parts(section, holders) ==
            [part \in DOMAIN section |->
                IF holders THEN [id \in DOMAIN section[part] |-> Without(section[part][id])]
                ELSE Without(section[part])]
    IN [k \in DOMAIN payload |-> Parts(payload[k], k # "public")]

\* the permissions of a Data object
DataPermissionNames == <<PermView, PermEdit, PermShare, PermDownload>>

ContentGrants(holder, value, obj) ==
    {<<holder, Codename(Requested(value, DataPermissionNames)[i], DataTypeName), obj>> :
        i \in 1..Len(Requested(value, DataPermissionNames))}

\* resolwe.permissions.utils.update_permission: the payload applied to the
\* grants of one object
utils_update_permission(grants, obj, payload) ==
    LET Granted(kind, part) ==
            IF Has(payload, kind) /\ Has(payload[kind], part)
            THEN IF kind = "public"
                 THEN ContentGrants(PublicHolder, payload[kind][part], obj)
                 ELSE UNION {IF fetch_user(id) = None THEN {}
                             ELSE ContentGrants(fetch_user(id)[1], payload[kind][part][id], obj) :
                                id \in DOMAIN payload[kind][part]}
            ELSE {}
    IN (((grants \cup Granted("users", "add")) \ Granted("users", "remove"))
           \cup Granted("public", "add")) \ Granted("public", "remove")

\* the slip of taking every data object
AllData(db, e) == db.data

\* obj.data.all()
ContentOf(db, e) == db.entity_data[e]

\* for data in obj.data.all(): if user.has_perm('share_data', data): ...
RECURSIVE UpdateContent(_, _, _, _)
UpdateContent(db, user, todo, payload) ==
    IF todo = {} THEN db
    ELSE LET data == Min(todo)
         IN UpdateContent(IF has_perm(db, user, Codename(PermShare, DataTypeName), data)
                          THEN [db EXCEPT !.perms = utils_update_permission(@, data, payload)]
                          ELSE db,
                          user, todo \ {data}, payload)

\* EntityViewSet.set_content_permissions
set_content_permissions(db, user, obj, payload) ==
    UpdateContent(db, user, ContentOf(db, obj), remove_permission(payload, PermAdd))

ContentPayloads ==
    {[users |-> [add |-> (BobPk :> <<PermView, PermAdd>>)]],
     [users |-> [add |-> (BobPk :> PermAll)]],
     [users |-> [remove |-> (AlicePk :> <<PermShare>>) @@ (BobPk :> <<PermAdd, PermEdit>>)]],
     [public |-> [add |-> <<PermAdd, PermView, PermAdd>>]],
     [users |-> [add |-> (UnknownPk :> <<PermEdit>>)],
      public |-> [remove |-> <<PermView>>]]}

InitContent ==
    /\ InitStore
    /\ InitPure
    /\ InitNoCommand
    /\ InitNoWeb
    /\ \E alice \in SUBSET DataIds, public \in SUBSET DataIds, bob \in SUBSET DataIds :
          ent = [db |-> [data |-> DataIds,
                         entities |-> EntityIds,
                         entity_data |-> EntityData,
                         perms |-> {<<Alice.name, Codename(PermShare, DataTypeName), d>> :
                                       d \in alice}
                                   \cup {<<PublicHolder, Codename(PermView, DataTypeName), d>> :
                                            d \in public}
                                   \cup {<<"bob", Codename(PermEdit, DataTypeName), d>> :
                                            d \in bob}],
                 requests |-> 0,
                 last |-> NoRequest]

SetContentPermissions ==
    /\ ent.requests < MaxCalls
    /\ \E user \in Users, e \in EntityIds, payload \in ContentPayloads :
          /\ ent' = [db |-> set_content_permissions(ent.db, user, e, payload),
                     requests |-> ent.requests + 1,
                     last |-> [op |-> "set_content_permissions", user |-> user,
                               entity |-> e, payload |-> payload,
                               before |-> ent.db.perms]]
          /\ UNCHANGED <<processes, descriptors, perms, nextId, last, vin, vout, nin, nout,
                         cmd, web>>

NextContent == SetContentPermissions

SpecContent == InitContent /\ [][NextContent]_vars

(***************************************************************************)
(* Properties of set_content_permissions (SpecContent).                    *)
(***************************************************************************)
GrantsOn(grants, d) == {grant \in grants : grant[3] = d}

\* C25: a set_content_permissions call leaves the grants of every data
\* object that is not in the entity, or on which the user does not hold
\* share_data, as they were, and grants `add` on no data object.
C25_ContentPermissionsFrame ==
    ent.last.op = "set_content_permissions"
        => /\ \A d \in DataIds :
                 (\/ d \notin ent.db.entity_data[ent.last.entity]
                  \/ <<ent.last.user.name,
                       <<"s", "h", "a", "r", "e", "_", "d", "a", "t", "a">>, d>>
                        \notin ent.last.before)
                    => GrantsOn(ent.db.perms, d) = GrantsOn(ent.last.before, d)
           /\ \A grant \in ent.db.perms : grant[2] # <<"a", "d", "d", "_", "d", "a", "t", "a">>

\* a payload granting view and add to a user was applied to entity 1 by a
\* user who may share data 2 and not data 1: the user got view on data 2,
\* add on none, and the grants on data 1 are as before
C25_Witness ==
    /\ ent.last.op = "set_content_permissions"
    /\ ent.last.user = Alice
    /\ ent.last.entity = 1
    /\ ent.last.payload = [users |-> [add |-> (BobPk :> <<PermView, PermAdd>>)]]
    /\ ent.requests = 1
    /\ <<"bob", <<"v", "i", "e", "w", "_", "d", "a", "t", "a">>, 2>> \in ent.db.perms
    /\ <<"bob", <<"v", "i", "e", "w", "_", "d", "a", "t", "a">>, 1>> \notin ent.db.perms
    /\ GrantsOn(ent.db.perms, 1) = GrantsOn(ent.last.before, 1)

(***************************************************************************)
(* The automatic slug of a model with unique (slug, version), as the tests *)
(* of tests/test_fields.py exercise it.  `web.db.objects` holds the rows.  *)
(***************************************************************************)
MaxSaves == 3        \* creations and saves in a behaviour
MaxSequence == 4     \* the longest sequence number (999999999 in the test)

Digits == <<"0", "1", "2", "3", "4", "5", "6", "7", "8", "9">>

\* '-{}'.format(sequence)
SequenceSuffix(n) == <<"-", Digits[n + 1]>>

\* the sequence number of a slug of the form base or base-N, 0 for another
SequenceOf(slug, base) ==
    IF slug = base THEN 1
    ELSE IF /\ Len(slug) > Len(base) + 1
            /\ SubSeq(slug, 1, Len(base)) = base
            /\ slug[Len(base) + 1] = "-"
            /\ \A i \in (Len(base) + 2)..Len(slug) : slug[i] \in Range(Digits)
    THEN ParseInt(SubSeq(slug, Len(base) + 2, Len(slug)), 0)
    ELSE 0

\* the slip of never adding a sequence number
BaseSlug(objects, id, base, version) == Ok(base)

\* the slug for a row: the base when it is free for the version, else the
\* base with the sequence number after the highest one in use
generate_slug(objects, id, base, version) ==
    LET others == {o \in objects : o.id # id /\ o.version = version}
        sequences == {SequenceOf(o.slug, base) : o \in others}
        highest == CHOOSE n \in sequences : \A m \in sequences : m <= n
    IN IF \A o \in others : o.slug # base THEN Ok(base)
       ELSE IF highest + 1 > MaxSequence THEN Raise("DatabaseError")
       ELSE Ok(base \o SequenceSuffix(highest + 1))

\* TestModel.objects.create(name=..., version=...)
create_object(db, name, slug, version) ==
    LET made == generate_slug(db.objects, db.next_id,
                              IF slug = None THEN slugify(name) ELSE slug[1], version)
    IN IF ~made.ok THEN Result(db, made.exc)
       ELSE Result([objects |-> db.objects
                                  \cup {[id |-> db.next_id, name |-> name,
                                         slug |-> made.val, version |-> version]},
                    next_id |-> db.next_id + 1],
                   "ok")

\* obj.name = ...; obj.version = ...; obj.save()
save_object(db, obj, name, version) ==
    LET collides == \E o \in db.objects :
                        o.id # obj.id /\ o.slug = obj.slug /\ o.version = version
        made == IF collides THEN generate_slug(db.objects, obj.id, obj.slug, version)
                ELSE Ok(obj.slug)
    IN IF ~made.ok THEN Result(db, made.exc)
       ELSE Result([db EXCEPT !.objects =
                       (@ \ {obj}) \cup {[obj EXCEPT !.name = name, !.slug = made.val,
                                                     !.version = version]}],
                   "ok")

NameTest == <<"A">>                  \* slugifies to "a"
NameTest2 == <<"A", " ", "2">>       \* slugifies to "a-2"
ObjectNames == {NameTest, NameTest2}
ObjectVersions == {V1_9, V1_10}
GivenSlugs == {SlugA, SlugA \o SequenceSuffix(3), SlugA \o SequenceSuffix(MaxSequence)}

InitSlug ==
    /\ InitStore
    /\ InitPure
    /\ InitNoCommand
    /\ InitNoEntity
    /\ web = [db |-> [objects |-> {}, next_id |-> 1], requests |-> 0, last |-> NoRequest]

Saved(res, request) ==
    /\ web' = [db |-> res.db, requests |-> web.requests + 1,
               last |-> [k \in DOMAIN request \cup {"status", "before"} |->
                            IF k = "status" THEN res.status
                            ELSE IF k = "before" THEN web.db.objects
                            ELSE request[k]]]
    /\ UNCHANGED <<processes, descriptors, perms, nextId, last, vin, vout, nin, nout, cmd, ent>>

CreateObject ==
    /\ web.requests < MaxSaves
    /\ \E name \in ObjectNames, version \in ObjectVersions :
          Saved(create_object(web.db, name, None, version),
                [op |-> "create", id |-> web.db.next_id, name |-> name, version |-> version])

\* TestModel.objects.create(name=..., slug=...), with a slug that is free
CreateWithSlug ==
    /\ web.requests < MaxSaves
    /\ \E slug \in GivenSlugs :
          /\ \A o \in web.db.objects : ~(o.slug = slug /\ o.version = V1_9)
          /\ Saved(create_object(web.db, NameTest, Some(slug), V1_9),
                   [op |-> "create_with_slug", id |-> web.db.next_id, name |-> NameTest,
                    version |-> V1_9])

SaveObject ==
    /\ web.requests < MaxSaves
    /\ \E obj \in web.db.objects, name \in ObjectNames, version \in ObjectVersions :
          Saved(save_object(web.db, obj, name, version),
                [op |-> "save", id |-> obj.id, name |-> name, version |-> version])

NextSlug == CreateObject \/ CreateWithSlug \/ SaveObject

SpecSlug == InitSlug /\ [][NextSlug]_vars

(***************************************************************************)
(* Properties of the automatic slug (SpecSlug).                            *)
(***************************************************************************)
SlugsTaken(objects, id, version) == {o.slug : o \in {p \in objects : p.id # id /\ p.version = version}}

TheRow(objects, id) == CHOOSE o \in objects : o.id = id

UniqueSlugVersion ==
    \A o \in web.db.objects : \A p \in web.db.objects :
        (o.slug = p.slug /\ o.version = p.version) => o = p

SaveKeepsSlug ==
    (web.last.op = "save" /\ web.last.status = "ok")
        => (TheRow(web.last.before, web.last.id).slug
               \notin SlugsTaken(web.last.before, web.last.id, web.last.version)
              => TheRow(web.db.objects, web.last.id).slug
                    = TheRow(web.last.before, web.last.id).slug)

\* C22 (amended): no two rows share (slug, version); a row created by name
\* gets the slugified name when that is free for its version (also when it
\* is taken under another version), and else the whole base followed by
\* '-N' with N one more than the highest sequence number in use for the base
\* and version (2 when only the bare base is taken), the creation failing
\* when N would pass the longest sequence; a save keeps the slug of the row
\* unless its (slug, version) is then taken by another row.
C22_SlugSequence ==
    /\ UniqueSlugVersion
    /\ SaveKeepsSlug
    /\ web.last.op = "create"
          => LET base == slugify(web.last.name)
                 taken == SlugsTaken(web.last.before, web.last.id, web.last.version)
                 InUse(n) == IF n = 1 THEN base \in taken
                             ELSE (base \o SequenceSuffix(n)) \in taken
             IN IF base \notin taken
                THEN web.last.status = "ok" /\ TheRow(web.db.objects, web.last.id).slug = base
                ELSE IF web.last.status = "ok"
                THEN \E n \in 2..MaxSequence :
                        /\ TheRow(web.db.objects, web.last.id).slug = base \o SequenceSuffix(n)
                        /\ InUse(n - 1)
                        /\ \A m \in n..MaxSequence : ~InUse(m)
                ELSE InUse(MaxSequence) /\ web.db.objects = web.last.before

\* C22 as stated: the sequence number is the lowest free one from 2 on.
C22_Original ==
    /\ UniqueSlugVersion
    /\ SaveKeepsSlug
    /\ web.last.op = "create"
          => LET base == slugify(web.last.name)
                 taken == SlugsTaken(web.last.before, web.last.id, web.last.version)
             IN IF base \notin taken
                THEN web.last.status = "ok" /\ TheRow(web.db.objects, web.last.id).slug = base
                ELSE /\ web.last.status = "ok"
                     /\ \E n \in 2..MaxSequence :
                           /\ TheRow(web.db.objects, web.last.id).slug
                                 = base \o SequenceSuffix(n)
                           /\ \A m \in 2..(n - 1) : (base \o SequenceSuffix(m)) \in taken

\* after "a" and "a-2" were made for one version, the name that slugifies
\* to "a-2" got "a-2-2"
C22_Witness ==
    /\ web.last.op = "create"
    /\ web.last.status = "ok"
    /\ web.last.name = NameTest2
    /\ {o.slug : o \in web.db.objects} = {<<"a">>, <<"a", "-", "2">>, <<"a", "-", "2", "-", "2">>}
    /\ \A o \in web.db.objects : o.version = V1_9

====
